---- MODULE Spec2Model ----
(***************************************************************************)
(* A model of yfinance_scraper's fetch orchestration: the retry engine     *)
(* (fetch_with_retry, fetch_batch_price_data), the period-mode and the     *)
(* date-range batch fetchers (fetch_data_for_tickers,                      *)
(* fetch_data_from_date), the Store (storage.py) and the incremental       *)
(* update with its merge (updater.py).                                     *)
(*                                                                         *)
(* A table (pandas DataFrame) is a sequence of rows <<index, value>>; a    *)
(* symbol's data (Dict[str, DataFrame]) is a function from the kinds it    *)
(* holds to tables.  Timestamps are seconds; trading dates are midnights   *)
(* (multiples of Day).  The remote provider is the environment: every      *)
(* remote request draws its outcome with \E; the value of a quote is the   *)
(* day it was served on, so a row fetched again later differs from the     *)
(* stored one.                                                             *)
(***************************************************************************)
EXTENDS Integers, Sequences, FiniteSets, TLC

(* ------------------------------------------------------------------ *)
(* Program constants                                                  *)
(* ------------------------------------------------------------------ *)
RATE_LIMIT_DEFAULT_TIMEOUT == 30
MAX_RETRIES == 5
BATCH_SIZE == 50
DAILY_LIMIT == 400
REQUEST_DELAY == 2
BATCH_DELAY == 5
MAX_AGE_DAYS == 1
day_delay == 60
\* random.uniform(0, 3) of the per-symbol loops, random.uniform(0, 5) of the bulk requests
JITTER_SINGLE == 3
JITTER_BATCH == 5
\* timedelta(days=1), in seconds
Day == 86400

(* ------------------------------------------------------------------ *)
(* Bounds of the model                                                *)
(* ------------------------------------------------------------------ *)
\* trading dates are Day * 1 .. Day * MaxDay
MaxDay == 2
\* the tables drawn for the merge alone have any dates among 1 .. MaxSparse
MaxSparse == 4
\* the tables drawn for the merge alone have consecutive dates among 1 .. MaxDate
\* the longest list given to prioritize_tickers and chunk_list
MaxTickers == 3

\* the largest chunk size given to chunk_list
MaxChunk == 3

\* the longest list given to validate_tickers
MaxRaw == 2

MaxDate == 8

Symbols == {"AAA", "BBB"}
TimeKinds == {"ohlcv", "dividends", "splits"}
AuxKinds == {"info", "financials", "balance_sheet", "cashflow", "earnings"}
Kinds == TimeKinds \cup AuxKinds

(* ------------------------------------------------------------------ *)
(* Dictionaries and tables                                            *)
(* ------------------------------------------------------------------ *)
EmptyDict == [k \in {} |-> <<>>]

Put(d, k, v) == [x \in (DOMAIN d) \cup {k} |-> IF x = k THEN v ELSE d[x]]

\* dict.update
DictUpdate(d, e) == [x \in (DOMAIN d) \cup (DOMAIN e) |-> IF x \in DOMAIN e THEN e[x] ELSE d[x]]

Index(t) == [i \in 1..Len(t) |-> t[i][1]]

IndexSet(t) == {t[i][1] : i \in 1..Len(t)}

\* df.empty
IsEmpty(t) == Len(t) = 0

SetMax(S) == CHOOSE x \in S : \A y \in S : y <= x

SetMin(S) == CHOOSE x \in S : \A y \in S : x <= y

\* df.index.max()
IndexMax(t) == SetMax(IndexSet(t))

NoDuplicateIndex(t) == \A i, j \in 1..Len(t) : i # j => t[i][1] # t[j][1]

StrictlyIncreasing(t) == \A i \in 1..(Len(t) - 1) : t[i][1] < t[i + 1][1]

RECURSIVE Pow2(_)
Pow2(n) == IF n <= 0 THEN 1 ELSE 2 * Pow2(n - 1)

(* ------------------------------------------------------------------ *)
(* The merge of update_ticker_data                                    *)
(* ------------------------------------------------------------------ *)
\* pd.concat([existing, new]): the rows of existing, then the rows of new
Concat(existing, new) == existing \o new

\* row i survives df[~df.index.duplicated(keep='last')] iff no later row has its index
IsLastOfIndex(t, i) == \A j \in (i + 1)..Len(t) : t[j][1] # t[i][1]

RECURSIVE DropDuplicatedFrom(_, _)
DropDuplicatedFrom(t, i) ==
    IF i > Len(t) THEN <<>>
    ELSE (IF IsLastOfIndex(t, i) THEN <<t[i]>> ELSE <<>>) \o DropDuplicatedFrom(t, i + 1)

\* the table if no duplicated row were dropped
KeepDuplicated(t) == t

DropDuplicatedKeepLast(t) == DropDuplicatedFrom(t, 1)

\* insertion of a row after every row whose index is <= its own (a stable sort)
RECURSIVE InsertRow(_, _)
InsertRow(sorted, row) ==
    IF sorted = <<>> THEN <<row>>
    ELSE IF sorted[Len(sorted)][1] <= row[1] THEN Append(sorted, row)
    ELSE Append(InsertRow(SubSeq(sorted, 1, Len(sorted) - 1), row), sorted[Len(sorted)])

RECURSIVE SortIndexFrom(_, _, _)
SortIndexFrom(t, i, acc) ==
    IF i > Len(t) THEN acc ELSE SortIndexFrom(t, i + 1, InsertRow(acc, t[i]))

\* df.sort_index()
SortIndex(t) == SortIndexFrom(t, 1, <<>>)

\* the merge of one kind if the duplicated rows kept were the stored ones (keep='first')
MergeTablesKeepFirst(existing, new) == SortIndex(DropDuplicatedKeepLast(Concat(new, existing)))

\* one kind present in both inputs: concat, drop duplicates keeping the last, sort
MergeTables(existing, new) == SortIndex(DropDuplicatedKeepLast(Concat(existing, new)))

\* the kinds of the merge loop if it iterated over the fetched kinds alone
FetchedKindsOnly(existing_data, new_ticker_data) == DOMAIN new_ticker_data

\* the kinds the merge loop iterates over
MergedKinds(existing_data, new_ticker_data) == (DOMAIN existing_data) \cup (DOMAIN new_ticker_data)

\* one iteration of the merge loop if a fetched table replaced the stored one
OverwriteKind(existing_data, new_ticker_data, data_type) ==
    IF data_type \in DOMAIN new_ticker_data THEN new_ticker_data[data_type]
    ELSE existing_data[data_type]

\* one iteration of the merge loop: the table of data_type in merged_data
MergeKind(existing_data, new_ticker_data, data_type) ==
    IF data_type \in DOMAIN new_ticker_data /\ data_type \in DOMAIN existing_data
    THEN MergeTables(existing_data[data_type], new_ticker_data[data_type])
    ELSE IF data_type \in DOMAIN new_ticker_data
    THEN new_ticker_data[data_type]
    ELSE existing_data[data_type]

MergeData(existing_data, new_ticker_data) ==
    [data_type \in MergedKinds(existing_data, new_ticker_data) |->
        MergeKind(existing_data, new_ticker_data, data_type)]

Range(seq) == {seq[i] : i \in 1..Len(seq)}

(* ------------------------------------------------------------------ *)
(* State                                                              *)
(* ------------------------------------------------------------------ *)
VARIABLES
    now,            \* datetime.now(), seconds
    disk,           \* the configuration file, and the data directories made
    store,          \* store[ticker][kind]: the table of <data_dir>/<ticker>/<kind>.parquet
    dirs,           \* the tickers whose directory <data_dir>/<ticker> exists
    pc,             \* the control point of the running call ("idle": none)
    args,           \* the arguments of the running fetch call
    daily_chunks,   \* fetch_*: chunk_list(tickers, daily_limit)
    day,            \* fetch_*: index of the daily chunk being processed
    batch_idx,      \* fetch_*: index of the batch inside the daily chunk
    t_idx,          \* fetch_*: index of the ticker inside the batch
    attempt,        \* the attempt of the running retry loop
    price_data,     \* fetch_data_for_tickers: the bulk result of the batch
    batch_results,  \* fetch_data_for_tickers: the results of the daily chunk so far
    result,         \* fetch_*: the results of the call so far
    upd,            \* update_data_for_tickers / update_ticker_data: their locals
    slept,          \* the time.sleep calls of the last step, in order
    issued,         \* the remote requests of the last step, in order
    replied,        \* what the remote answered to the price request of the last step
    aux_replied,    \* what the five accessors answered in the last step, if requested
    last_call,      \* the retry-wrapped call that returned in the last step, if any
    ret             \* the return of the top-level call

vars == <<now, disk, store, dirs, pc, args, daily_chunks, day, batch_idx, t_idx, attempt,
          price_data, batch_results, result, upd, slept, issued, replied, aux_replied, last_call, ret>>

(* ------------------------------------------------------------------ *)
(* The Store (storage.py)                                             *)
(* ------------------------------------------------------------------ *)
NoDate == 0 - 1

\* pandas gives a DatetimeIndex to the price tables; info has a RangeIndex and the
\* statements are indexed by line item
HasDatetimeIndex(data_type) == data_type \in TimeKinds

\* the kinds written if an empty table were written too
AllKindsSaved(data) == DOMAIN data

\* the kinds save_ticker_data writes: the tables that are not empty
SavedKinds(data) == {k \in DOMAIN data : ~IsEmpty(data[k])}

\* save_ticker_data: the files of the ticker afterwards
SaveTickerData(files, data) ==
    [k \in (DOMAIN files) \cup SavedKinds(data) |->
        IF k \in SavedKinds(data) THEN data[k] ELSE files[k]]

\* load_ticker_data(ticker, data_dir): every table of the ticker's directory
LoadTickerData(ticker) == IF ticker \in dirs THEN store[ticker] ELSE EmptyDict

\* the latest date if a missing table counted as one that ends at the epoch
LatestOrEpoch(ticker, data_type) ==
    IF ticker \notin dirs \/ data_type \notin DOMAIN store[ticker] THEN 0
    ELSE IF ~HasDatetimeIndex(data_type) THEN 0
    ELSE IndexMax(store[ticker][data_type])

\* get_latest_date(ticker, data_dir, data_type)
GetLatestDate(ticker, data_type) ==
    IF ticker \notin dirs \/ data_type \notin DOMAIN store[ticker] THEN NoDate
    ELSE IF ~HasDatetimeIndex(data_type) THEN NoDate
    ELSE IndexMax(store[ticker][data_type])

(* ------------------------------------------------------------------ *)
(* utils.py                                                           *)
(* ------------------------------------------------------------------ *)
\* a symbol as typed is the sequence of its characters; the letters str.upper() maps,
\* lower case to upper case, place by place
Alphabet ==
    [lower |-> <<"a", "b", "c", "d", "e", "f", "g", "h", "i", "j", "k", "l", "m",
                 "n", "o", "p", "q", "r", "s", "t", "u", "v", "w", "x", "y", "z">>,
     upper |-> <<"A", "B", "C", "D", "E", "F", "G", "H", "I", "J", "K", "L", "M",
                 "N", "O", "P", "Q", "R", "S", "T", "U", "V", "W", "X", "Y", "Z">>]

\* ticker.upper()
Upper(ticker) ==
    [i \in 1..Len(ticker) |->
        IF \E j \in 1..Len(Alphabet.lower) : Alphabet.lower[j] = ticker[i]
        THEN Alphabet.upper[CHOOSE j \in 1..Len(Alphabet.lower) : Alphabet.lower[j] = ticker[i]]
        ELSE ticker[i]]

\* validate_ticker_symbol(ticker)
ValidateTickerSymbol(ticker) ==
    LET valid_chars == Range(Alphabet.upper)
                       \cup {"0", "1", "2", "3", "4", "5", "6", "7", "8", "9", ".", "-", "^"}
    IN  IF ticker = <<>> \/ Len(ticker) > 10 THEN FALSE
        ELSE \A i \in 1..Len(ticker) : Upper(ticker)[i] \in valid_chars

\* the list if the valid symbols were kept as typed
ValidateTickersAsGiven(tickers) == SelectSeq(tickers, ValidateTickerSymbol)

\* validate_tickers(tickers)
ValidateTickers(tickers) ==
    LET valid_tickers == SelectSeq(tickers, ValidateTickerSymbol)
    IN  [i \in 1..Len(valid_tickers) |-> Upper(valid_tickers[i])]

\* the comparison if a date exactly max_age_days old were too old
StrictlyRecent(latest_date, max_age_days) == latest_date > now - max_age_days * Day

\* latest_date >= datetime.now() - timedelta(days=max_age_days)
RecentEnough(latest_date, max_age_days) == latest_date >= now - max_age_days * Day

IsCacheValid(ticker, data_type, max_age_days) ==
    /\ data_type \in DOMAIN store[ticker]
    /\ GetLatestDate(ticker, data_type) # NoDate
    /\ RecentEnough(GetLatestDate(ticker, data_type), max_age_days)

\* the order if the fresh symbols came before the outdated ones
ValidBeforeOutdated(tickers, max_age_days) ==
    LET Uncached(t) == t \notin dirs
        Outdated(t) == t \in dirs /\ ~IsCacheValid(t, "ohlcv", max_age_days)
        Valid(t) == t \in dirs /\ IsCacheValid(t, "ohlcv", max_age_days)
    IN  SelectSeq(tickers, Uncached) \o SelectSeq(tickers, Valid) \o SelectSeq(tickers, Outdated)

\* the order if prioritize_tickers left the list as it was given
AsListed(tickers, max_age_days) == tickers

PrioritizeTickers(tickers, max_age_days) ==
    LET Uncached(t) == t \notin dirs
        Outdated(t) == t \in dirs /\ ~IsCacheValid(t, "ohlcv", max_age_days)
        Valid(t) == t \in dirs /\ IsCacheValid(t, "ohlcv", max_age_days)
    IN  SelectSeq(tickers, Uncached) \o SelectSeq(tickers, Outdated) \o SelectSeq(tickers, Valid)

\* items[i:i + chunk_size] for i in range(0, len(items), chunk_size), chunk_size > 0
RECURSIVE ChunkFrom(_, _, _)
ChunkFrom(items, i, chunk_size) ==
    IF i >= Len(items) THEN <<>>
    ELSE <<SubSeq(items, i + 1, IF i + chunk_size < Len(items) THEN i + chunk_size ELSE Len(items))>>
         \o ChunkFrom(items, i + chunk_size, chunk_size)

\* the chunks if the rest shorter than chunk_size were left out
ChunkListWithoutRest(items, chunk_size) ==
    IF chunk_size < 0 THEN <<>>
    ELSE ChunkFrom(SubSeq(items, 1, (Len(items) \div chunk_size) * chunk_size), 0, chunk_size)

\* range(0, len(items), chunk_size) is empty for a negative step; a step of 0 raises
\* ValueError before any chunk is made
ChunkList(items, chunk_size) ==
    IF chunk_size < 0 THEN <<>> ELSE ChunkFrom(items, 0, chunk_size)


(* ------------------------------------------------------------------ *)
(* The remote provider (yfinance), as the environment                 *)
(* ------------------------------------------------------------------ *)
TradingDates == {d * Day : d \in 1..MaxDay}

\* the dates the remote has quotes for at the time of a request
ServedDates == {d \in TradingDates : d <= now}

\* the value of a quote served now: the day it is served on
AsOf == now \div Day

RECURSIVE TableOf(_, _)
TableOf(S, v) ==
    IF S = {} THEN <<>>
    ELSE LET d == SetMin(S) IN <<<<d, v>>>> \o TableOf(S \ {d}, v)

\* what a price request may carry for one symbol: the served dates from some date on,
\* sorted, none twice, whatever range was asked for; or nothing (the empty payload)
Payloads == {<<>>} \cup {TableOf({d \in ServedDates : d >= from}, AsOf) : from \in ServedDates}

\* the 'Dividends' and 'Stock Splits' columns of the quote of a date
Dividends(date) == IF (date \div Day) % 3 = 2 THEN 1 ELSE 0

StockSplits(date) == IF (date \div Day) % 3 = 1 THEN 2 ELSE 0

\* ticker_obj.history(...): raises "Too Many Requests", raises another error, or returns
HistoryOutcomes ==
    {[kind |-> "rate_limited", hist |-> <<>>], [kind |-> "error", hist |-> <<>>]}
    \cup {[kind |-> "data", hist |-> t] : t \in Payloads}

\* yf.download(tickers=batch, ...): the same, per ticker of the batch (an empty table
\* for a ticker: the response has no column group for it, or no row)
DownloadOutcomes(batch) ==
    {[kind |-> "rate_limited", data |-> [t \in Range(batch) |-> <<>>]],
     [kind |-> "error", data |-> [t \in Range(batch) |-> <<>>]]}
    \cup {[kind |-> "data", data |-> f] : f \in [Range(batch) -> Payloads]}

\* data.empty of a bulk response
DataEmpty(batch, data) == \A t \in Range(batch) : IsEmpty(data[t])

\* what a price request is answered with, as the retry loops tell the answers apart
Replies == {"data", "empty", "rate_limited", "error"}

Failures == Replies \ {"data"}

NoReply == ""

HistoryReply(out) ==
    IF out.kind # "data" THEN out.kind ELSE IF IsEmpty(out.hist) THEN "empty" ELSE "data"

DownloadReply(batch, out) ==
    IF out.kind # "data" THEN out.kind ELSE IF DataEmpty(batch, out.data) THEN "empty" ELSE "data"

\* the five auxiliary accessors of one symbol: the kinds in failed give nothing, by
\* raising (raised) or by an empty value
AllAuxOutcomes ==
    UNION {{[failed |-> F, raised |-> R] : R \in SUBSET F} : F \in SUBSET AuxKinds}

AuxOk == [failed |-> {}, raised |-> {}]

\* the outcomes the orchestration is run against: all five kinds served, the first
\* accessor raising, every accessor raising, every accessor empty
AuxOutcomes ==
    {AuxOk, [failed |-> {"info"}, raised |-> {"info"}],
     [failed |-> AuxKinds, raised |-> AuxKinds], [failed |-> AuxKinds, raised |-> {}]}

\* what each accessor answered: a table, nothing, or an exception
AuxReply(aux) ==
    [k \in AuxKinds |->
        IF k \in aux.raised THEN "raised" ELSE IF k \in aux.failed THEN "empty" ELSE "ok"]

NoAux == EmptyDict

AuxTable(v) == <<<<0, v>>>>

\* the remote requests, as the code issues them
Download(tickers, start_date, end_date) ==
    [api |-> "download", tickers |-> tickers, start |-> start_date, end |-> end_date]

History(ticker, start_date, end_date) ==
    [api |-> "history", tickers |-> <<ticker>>, start |-> start_date, end |-> end_date]

Accessor(ticker, kind) ==
    [api |-> kind, tickers |-> <<ticker>>, start |-> 0 - 1, end |-> 0 - 1]

AuxOrder == <<"info", "financials", "balance_sheet", "cashflow", "earnings">>

AuxRequests(ticker) == [i \in 1..Len(AuxOrder) |-> Accessor(ticker, AuxOrder[i])]

(* ------------------------------------------------------------------ *)
(* fetcher.py: what a price table gives, the pacing, the backoff      *)
(* ------------------------------------------------------------------ *)
\* time.sleep(secs + random.uniform(0, jitter))
Sleep(why, secs, jitter) == [why |-> why, secs |-> secs, jitter |-> jitter]

\* hist[hist['Dividends'] > 0][['Dividends']]
DividendRows(hist) ==
    LET Positive(row) == Dividends(row[1]) > 0
        rows == SelectSeq(hist, Positive)
    IN  [i \in 1..Len(rows) |-> <<rows[i][1], Dividends(rows[i][1])>>]

\* hist[hist['Stock Splits'] > 0][['Stock Splits']]
SplitRows(hist) ==
    LET Positive(row) == StockSplits(row[1]) > 0
        rows == SelectSeq(hist, Positive)
    IN  [i \in 1..Len(rows) |-> <<rows[i][1], StockSplits(rows[i][1])>>]

\* result = {"ohlcv": hist}, plus "dividends" and "splits" when the column has any
PriceResult(hist) ==
    [k \in {"ohlcv"}
        \cup (IF Len(DividendRows(hist)) > 0 THEN {"dividends"} ELSE {})
        \cup (IF Len(SplitRows(hist)) > 0 THEN {"splits"} ELSE {}) |->
        IF k = "ohlcv" THEN hist
        ELSE IF k = "dividends" THEN DividendRows(hist)
        ELSE SplitRows(hist)]

\* the five accessors if the first failure ended them: the kinds before it are added
WithAuxUntilFailure(ticker_result, aux, v) ==
    LET kept == {AuxOrder[i] : i \in {j \in 1..Len(AuxOrder) :
                                         \A h \in 1..j : AuxOrder[h] \notin aux.failed}}
    IN  [k \in (DOMAIN ticker_result) \cup kept |->
            IF k \in kept THEN AuxTable(v) ELSE ticker_result[k]]

\* the five try blocks: each kind that gave a table is added to the result
WithAux(ticker_result, aux, v) ==
    [k \in (DOMAIN ticker_result) \cup (AuxKinds \ aux.failed) |->
        IF k \in AuxKinds \ aux.failed THEN AuxTable(v) ELSE ticker_result[k]]

\* time.sleep(REQUEST_DELAY) follows every accessor that did not raise
AuxSleeps(aux) ==
    [i \in 1..(Cardinality(AuxKinds) - Cardinality(aux.raised)) |->
        Sleep("request_delay", REQUEST_DELAY, 0)]

\* the copy from the cache if it took every cached kind, the price tables too
WithAllCached(ticker_result, cached_data) ==
    [k \in (DOMAIN ticker_result) \cup (DOMAIN cached_data) |->
        IF k \in DOMAIN cached_data THEN cached_data[k] ELSE ticker_result[k]]

\* for key, df in cached_data.items(): if key not in ["ohlcv", "dividends", "splits"]
WithCachedAux(ticker_result, cached_data) ==
    [k \in (DOMAIN ticker_result) \cup ((DOMAIN cached_data) \ TimeKinds) |->
        IF k \in (DOMAIN cached_data) \ TimeKinds THEN cached_data[k] ELSE ticker_result[k]]

\* the wait if it grew by the base timeout with every attempt
LinearWait(k) == RATE_LIMIT_DEFAULT_TIMEOUT * (k + 1)

\* RATE_LIMIT_DEFAULT_TIMEOUT * (2 ** attempt)
BackoffWait(k) == RATE_LIMIT_DEFAULT_TIMEOUT * Pow2(k)

\* RATE_LIMIT_DEFAULT_TIMEOUT * (2 ** batch_idx % 5): ** binds tighter than %
DateBatchWait(idx) == RATE_LIMIT_DEFAULT_TIMEOUT * (Pow2(idx) % 5)

\* the loop if it made one attempt more than max_retries
AttemptsRemainInclusive(k, max_retries) == k + 1 <= max_retries

\* for attempt in range(max_retries): whether another attempt follows attempt k
AttemptsRemain(k, max_retries) == k + 1 < max_retries

\* the sleep of a failed attempt of fetch_with_retry
SingleFailureSleep(kind, k) ==
    IF kind = "rate_limited" THEN Sleep("rate_limit", BackoffWait(k), JITTER_SINGLE)
    ELSE Sleep("request_delay", REQUEST_DELAY, 0)

\* the sleep of a failed attempt of fetch_batch_price_data
BatchFailureSleep(kind, k) ==
    IF kind = "rate_limited" THEN Sleep("rate_limit", BackoffWait(k), JITTER_BATCH)
    ELSE Sleep("batch_delay", BATCH_DELAY, 0)

\* fetch_batch_price_data: the result made of a response that is not empty
\* the frame yf.download returns for what the remote has (data[t] for each symbol): for
\* one symbol a plain table, without the per-symbol level of columns; for more, the
\* tables grouped under the symbols that have rows
Response(batch, data) ==
    IF Len(batch) = 1
    THEN [grouped |-> FALSE, table |-> data[batch[1]], groups |-> EmptyDict]
    ELSE [grouped |-> TRUE, table |-> <<>>,
          groups |-> [t \in {x \in Range(batch) : ~IsEmpty(data[x])} |-> data[t]]]

\* the result of the bulk request if the per-symbol level were looked up for every batch
GroupedOnly(batch, data) ==
    LET resp == Response(batch, data)
    IN  [t \in {x \in Range(batch) : x \in DOMAIN resp.groups /\ ~IsEmpty(resp.groups[x])} |->
            resp.groups[t]]

BatchPriceResult(batch, data) ==
    LET resp == Response(batch, data)
    IN  IF Len(batch) = 1 THEN [t \in {batch[1]} |-> resp.table]
        ELSE [t \in {x \in Range(batch) : x \in DOMAIN resp.groups /\ ~IsEmpty(resp.groups[x])} |->
                 resp.groups[t]]

\* the return of a retry-wrapped call: what it returned after how many remote attempts
Returned(fn, attempts, value) ==
    [fn |-> fn, attempts |-> attempts, value |-> value, raised |-> FALSE]

NoCall == Returned("", 0, EmptyDict)

\* the return of a top-level call
TopReturn(fn, value) == [fn |-> fn, value |-> value, raised |-> FALSE]

NoReturn == TopReturn("", EmptyDict)

NoArgs ==
    [fn |-> "", data_dir |-> FALSE, force_refresh |-> FALSE, max_retries |-> 0,
     batch_size |-> 0, daily_limit |-> 0, start_date |-> NoDate, end_date |-> NoDate]

NoUpdate ==
    [active |-> FALSE, tickers |-> <<>>, idx |-> 0, results |-> EmptyDict,
     existing_data |-> EmptyDict, new_data |-> EmptyDict, merged_data |-> EmptyDict]

(* ------------------------------------------------------------------ *)
(* Inputs of the top-level calls                                      *)
(* ------------------------------------------------------------------ *)
SymbolOrder == <<"AAA", "BBB">>

\* ticker lists: the first symbols of the universe, none included
TickerLists == {SubSeq(SymbolOrder, 1, n) : n \in 0..Len(SymbolOrder)}

\* the lists update_data_for_tickers is called with: also one symbol twice in a row
UpdateLists == TickerLists \cup {<<SymbolOrder[1], SymbolOrder[1]>>}

\* max_retries: the three of the rate-limit scenario, and the default
RetryBudgets == {3, MAX_RETRIES}

\* batch_size and daily_limit
ChunkSizes == 1..Cardinality(Symbols)

(* ------------------------------------------------------------------ *)
(* The loops shared by both fetchers                                  *)
(* ------------------------------------------------------------------ *)
\* chunk_list(daily_tickers, batch_size)
PriceBatches == ChunkList(daily_chunks[day + 1], args.batch_size)

Batch == PriceBatches[batch_idx + 1]

Ticker == Batch[t_idx + 1]

\* data_dir and not force_refresh
UsesCache == args.data_dir /\ ~args.force_refresh

\* save_ticker_data(ticker, data, data_dir): the files and the directories afterwards
\* the Store if a save wrote the tables into every symbol's directory
SaveToAll(files, ticker, data) == [t \in DOMAIN files |-> SaveTickerData(files[t], data)]

\* the Store if a save merged the tables into those of the directory
StoreAfterMerge(files, ticker, data) ==
    [files EXCEPT ![ticker] = SaveTickerData(files[ticker], MergeData(files[ticker], data))]

StoreAfterSave(files, ticker, data) ==
    [files EXCEPT ![ticker] = SaveTickerData(files[ticker], data)]

\* the fetch if it kept its results in memory alone
NoSave(ticker, data) == UNCHANGED <<store, dirs>>

\* the fetch if it saved whether a data directory was given or not
SaveAlways(ticker, data) ==
    store' = StoreAfterSave(store, ticker, data) /\ dirs' = dirs \cup {ticker}

\* if data_dir: save_ticker_data(ticker, data, data_dir)
SaveIfDir(ticker, data) ==
    IF args.data_dir
    THEN /\ store' = StoreAfterSave(store, ticker, data)
         /\ dirs' = dirs \cup {ticker}
    ELSE UNCHANGED <<store, dirs>>

(* ------------------------------------------------------------------ *)
(* fetch_data_for_tickers (period mode)                               *)
(* ------------------------------------------------------------------ *)
\* all(is_cache_valid(t, data_dir, max_age_days=MAX_AGE_DAYS) for t in batch)
BatchInCache == \A t \in Range(Batch) : IsCacheValid(t, "ohlcv", MAX_AGE_DAYS)

\* the orchestration if it never took a batch from the Store alone
NeverSkipsBatch == FALSE

\* whether the batch is served from the Store alone
SkipsBatch == UsesCache /\ BatchInCache

\* the end of a batch: the next batch of the day, the next day after result.update and
\* the inter-day sleep, or the return of the call
AfterBatch(br, sl) ==
    IF batch_idx + 1 < Len(PriceBatches)
    THEN /\ pc' = "batch"
         /\ batch_idx' = batch_idx + 1
         /\ batch_results' = br
         /\ slept' = sl
         /\ UNCHANGED <<day, result, ret>>
    ELSE IF day < Len(daily_chunks) - 1
    THEN /\ pc' = "batch"
         /\ day' = day + 1
         /\ batch_idx' = 0
         /\ batch_results' = EmptyDict
         /\ result' = DictUpdate(result, br)
         /\ slept' = Append(sl, Sleep("day_delay", day_delay, 0))
         /\ ret' = ret
    ELSE /\ pc' = "done"
         /\ batch_results' = br
         /\ result' = DictUpdate(result, br)
         /\ ret' = TopReturn("fetch_data_for_tickers", DictUpdate(result, br))
         /\ slept' = sl
         /\ UNCHANGED <<day, batch_idx>>

\* the end of one ticker if it ended the batch too
AbandonBatch(br, sl) == t_idx' = 0 /\ AfterBatch(br, sl)

\* the end of one ticker of the batch: the next ticker, or the end of the batch
AfterTicker(br, sl) ==
    IF t_idx + 1 < Len(Batch)
    THEN /\ pc' = "ticker"
         /\ t_idx' = t_idx + 1
         /\ batch_results' = br
         /\ slept' = sl
         /\ UNCHANGED <<day, batch_idx, result, ret>>
    ELSE /\ t_idx' = 0
         /\ AfterBatch(br, sl)

FetchDataForTickers(tickers, data_dir, force_refresh, max_retries, batch_size, daily_limit) ==
    /\ pc = "idle"
    /\ args' = [fn |-> "fetch_data_for_tickers", tickers |-> tickers, data_dir |-> data_dir,
                force_refresh |-> force_refresh, max_retries |-> max_retries,
                batch_size |-> batch_size, daily_limit |-> daily_limit,
                start_date |-> NoDate, end_date |-> NoDate]
    /\ daily_chunks' =
          ChunkList(IF data_dir /\ ~force_refresh
                    THEN PrioritizeTickers(tickers, MAX_AGE_DAYS) ELSE tickers,
                    daily_limit)
    /\ IF tickers = <<>>
       THEN pc' = "done" /\ ret' = TopReturn("fetch_data_for_tickers", EmptyDict)
       ELSE pc' = "batch" /\ ret' = NoReturn
    /\ UNCHANGED <<now, disk, store, dirs, day, batch_idx, t_idx, attempt, price_data,
                   batch_results, result, upd, slept, issued, replied, aux_replied, last_call>>

\* the batch is entirely in the cache: its tables are loaded, nothing is requested
SkipCachedBatch ==
    /\ pc = "batch"
    /\ args.fn = "fetch_data_for_tickers"
    /\ SkipsBatch
    /\ LET hit == {t \in Range(Batch) : DOMAIN LoadTickerData(t) # {}}
       IN  AfterBatch(DictUpdate(batch_results, [t \in hit |-> LoadTickerData(t)]), <<>>)
    /\ issued' = <<>> /\ replied' = NoReply /\ aux_replied' = NoAux
    /\ last_call' = NoCall
    /\ UNCHANGED <<now, disk, store, dirs, args, daily_chunks, t_idx, attempt, price_data, upd>>

\* one attempt of fetch_batch_price_data(batch, ...); when the call returns, the
\* time.sleep(BATCH_DELAY) that follows it
BatchDownloadAttemptOf(replies) ==
    /\ pc \in {"batch", "bulk"}
    /\ args.fn = "fetch_data_for_tickers"
    /\ pc = "batch" => ~SkipsBatch
    /\ \E out \in {o \in DownloadOutcomes(Batch) : DownloadReply(Batch, o) \in replies} :
        /\ issued' = <<Download(Batch, NoDate, NoDate)>>
        /\ replied' = DownloadReply(Batch, out) /\ aux_replied' = NoAux
        /\ IF out.kind = "data" /\ ~DataEmpty(Batch, out.data)
           THEN /\ price_data' = BatchPriceResult(Batch, out.data)
                /\ last_call' = Returned("fetch_batch_price_data", attempt + 1,
                                         BatchPriceResult(Batch, out.data))
                /\ slept' = <<Sleep("batch_delay", BATCH_DELAY, 0)>>
                /\ pc' = "ticker"
                /\ attempt' = 0
           ELSE IF AttemptsRemain(attempt, args.max_retries)
           THEN /\ attempt' = attempt + 1
                /\ slept' = <<BatchFailureSleep(out.kind, attempt)>>
                /\ pc' = "bulk"
                /\ last_call' = NoCall
                /\ price_data' = EmptyDict
           ELSE /\ price_data' = EmptyDict
                /\ last_call' = Returned("fetch_batch_price_data", attempt + 1, EmptyDict)
                /\ slept' = <<BatchFailureSleep(out.kind, attempt),
                              Sleep("batch_delay", BATCH_DELAY, 0)>>
                /\ pc' = "ticker"
                /\ attempt' = 0
    /\ UNCHANGED <<now, disk, store, dirs, args, daily_chunks, day, batch_idx, t_idx,
                   batch_results, result, upd, ret>>

BatchDownloadAttempt == BatchDownloadAttemptOf(Replies)

\* ticker in price_data and not price_data[ticker].empty
HasPriceData == Ticker \in DOMAIN price_data /\ ~IsEmpty(price_data[Ticker])

\* data_dir and not force_refresh and is_cache_valid(ticker, data_dir, ...)
TickerInCache == UsesCache /\ IsCacheValid(Ticker, "ohlcv", MAX_AGE_DAYS)

\* the ticker has bulk price data and a valid cache: its auxiliary kinds come from the cache
TickerFromBatchCachedAux ==
    /\ pc = "ticker"
    /\ HasPriceData
    /\ TickerInCache
    /\ LET ticker_result == WithCachedAux(PriceResult(price_data[Ticker]), LoadTickerData(Ticker))
       IN  /\ SaveIfDir(Ticker, ticker_result)
           /\ AfterTicker(Put(batch_results, Ticker, ticker_result), <<>>)
    /\ issued' = <<>> /\ replied' = NoReply /\ aux_replied' = NoAux
    /\ last_call' = NoCall
    /\ UNCHANGED <<now, disk, args, daily_chunks, attempt, price_data, upd>>

\* the ticker has bulk price data: its five auxiliary kinds are requested
TickerFromBatchFetchAuxOf(auxes) ==
    /\ pc = "ticker"
    /\ HasPriceData
    /\ ~TickerInCache
    /\ \E aux \in auxes :
        LET ticker_result == WithAux(PriceResult(price_data[Ticker]), aux, AsOf)
        IN  /\ aux_replied' = AuxReply(aux)
            /\ SaveIfDir(Ticker, ticker_result)
            /\ AfterTicker(Put(batch_results, Ticker, ticker_result), AuxSleeps(aux))
    /\ issued' = AuxRequests(Ticker) /\ replied' = NoReply
    /\ last_call' = NoCall
    /\ UNCHANGED <<now, disk, args, daily_chunks, attempt, price_data, upd>>

TickerFromBatchFetchAux == TickerFromBatchFetchAuxOf(AuxOutcomes)

\* the ticker has no bulk price data: fetch_with_retry(ticker, ...) is called; with a
\* valid cache it returns the cached tables at once
FetchWithRetryCached ==
    /\ pc = "ticker"
    /\ ~HasPriceData
    /\ TickerInCache
    /\ last_call' = Returned("fetch_with_retry", 0, LoadTickerData(Ticker))
    /\ AfterTicker(IF DOMAIN LoadTickerData(Ticker) # {}
                   THEN Put(batch_results, Ticker, LoadTickerData(Ticker))
                   ELSE batch_results, <<>>)
    /\ issued' = <<>> /\ replied' = NoReply /\ aux_replied' = NoAux
    /\ UNCHANGED <<now, disk, store, dirs, args, daily_chunks, attempt, price_data, upd>>

\* one attempt of fetch_with_retry(ticker, ...)
FetchWithRetryAttemptWith(replies, auxes) ==
    /\ pc \in {"ticker", "single"}
    /\ pc = "ticker" => ~HasPriceData /\ ~TickerInCache
    /\ \E out \in {o \in HistoryOutcomes : HistoryReply(o) \in replies}, aux \in auxes :
        IF out.kind = "data" /\ ~IsEmpty(out.hist)
        THEN LET ticker_data == WithAux(PriceResult(out.hist), aux, AsOf)
             IN  /\ SaveIfDir(Ticker, ticker_data)
                 /\ last_call' = Returned("fetch_with_retry", attempt + 1, ticker_data)
                 /\ issued' = <<History(Ticker, NoDate, NoDate)>> \o AuxRequests(Ticker)
                 /\ replied' = HistoryReply(out)
                 /\ aux_replied' = AuxReply(aux)
                 /\ attempt' = 0
                 /\ AfterTicker(Put(batch_results, Ticker, ticker_data), AuxSleeps(aux))
        ELSE /\ aux = AuxOk
             /\ issued' = <<History(Ticker, NoDate, NoDate)>>
             /\ replied' = HistoryReply(out) /\ aux_replied' = NoAux
             /\ UNCHANGED <<store, dirs>>
             /\ IF AttemptsRemain(attempt, args.max_retries)
                THEN /\ attempt' = attempt + 1
                     /\ pc' = "single"
                     /\ slept' = <<SingleFailureSleep(out.kind, attempt)>>
                     /\ last_call' = NoCall
                     /\ UNCHANGED <<day, batch_idx, t_idx, batch_results, result, ret>>
                ELSE /\ last_call' = Returned("fetch_with_retry", attempt + 1, EmptyDict)
                     /\ attempt' = 0
                     /\ AfterTicker(batch_results, <<SingleFailureSleep(out.kind, attempt)>>)
    /\ UNCHANGED <<now, disk, args, daily_chunks, price_data, upd>>

FetchWithRetryAttemptOf(replies) == FetchWithRetryAttemptWith(replies, AuxOutcomes)

FetchWithRetryAttempt == FetchWithRetryAttemptOf(Replies)

(* ------------------------------------------------------------------ *)
(* fetch_data_from_date (date-range mode)                             *)
(* ------------------------------------------------------------------ *)
\* the end of a batch: the next batch, the next day after the inter-day sleep, or the
\* return of the call, to update_ticker_data when it made the call
AfterDateBatch(res, sl) ==
    IF batch_idx + 1 < Len(PriceBatches)
    THEN /\ pc' = "d_batch"
         /\ batch_idx' = batch_idx + 1
         /\ result' = res
         /\ slept' = sl
         /\ UNCHANGED <<day, ret>>
    ELSE IF day < Len(daily_chunks) - 1
    THEN /\ pc' = "d_batch"
         /\ day' = day + 1
         /\ batch_idx' = 0
         /\ result' = res
         /\ slept' = Append(sl, Sleep("day_delay", day_delay, 0))
         /\ ret' = ret
    ELSE /\ pc' = IF upd.active THEN "merge" ELSE "done"
         /\ result' = res
         /\ ret' = IF upd.active THEN ret ELSE TopReturn("fetch_data_from_date", res)
         /\ slept' = sl
         /\ UNCHANGED <<day, batch_idx>>

\* the end of the retry loop of one ticker: time.sleep(REQUEST_DELAY), then the next
\* ticker of the batch or the end of the batch
AfterDateTicker(res, sl) ==
    IF t_idx + 1 < Len(Batch)
    THEN /\ pc' = "d_single"
         /\ t_idx' = t_idx + 1
         /\ result' = res
         /\ slept' = Append(sl, Sleep("request_delay", REQUEST_DELAY, 0))
         /\ UNCHANGED <<day, batch_idx, ret>>
    ELSE /\ t_idx' = 0
         /\ AfterDateBatch(res, Append(sl, Sleep("request_delay", REQUEST_DELAY, 0)))

FetchDataFromDate(tickers, start_date, data_dir, max_retries, batch_size, daily_limit) ==
    /\ pc = "idle"
    /\ args' = [fn |-> "fetch_data_from_date", tickers |-> tickers, data_dir |-> data_dir,
                force_refresh |-> FALSE, max_retries |-> max_retries,
                batch_size |-> batch_size, daily_limit |-> daily_limit,
                start_date |-> start_date, end_date |-> now]
    /\ daily_chunks' = ChunkList(tickers, daily_limit)
    /\ IF tickers = <<>>
       THEN pc' = "done" /\ ret' = TopReturn("fetch_data_from_date", EmptyDict)
       ELSE pc' = "d_batch" /\ ret' = NoReturn
    /\ UNCHANGED <<now, disk, store, dirs, day, batch_idx, t_idx, attempt, price_data,
                   batch_results, result, upd, slept, issued, replied, aux_replied, last_call>>

\* the tickers of the batch the bulk response has rows for, with what is kept of them
DateBatchResults(batch, data) ==
    LET resp == Response(batch, data)
        ticker_hist(t) == IF Len(batch) = 1 THEN resp.table ELSE resp.groups[t]
        present(t) == Len(batch) = 1 \/ t \in DOMAIN resp.groups
    IN  [t \in {x \in Range(batch) : present(x) /\ ~IsEmpty(ticker_hist(x))} |->
            PriceResult(ticker_hist(t))]

\* whether the per-symbol requests follow a failed bulk request
FallsBackToSingles(kind) == kind = "rate_limited"

\* the bulk yf.download of a batch, and what follows it without another remote request
DateDownload ==
    /\ pc = "d_batch"
    /\ \E out \in DownloadOutcomes(Batch) :
        /\ issued' = <<Download(Batch, args.start_date, args.end_date)>>
        /\ replied' = DownloadReply(Batch, out) /\ aux_replied' = NoAux
        /\ IF out.kind = "data"
           THEN LET got == DateBatchResults(Batch, out.data)
                IN  /\ IF args.data_dir
                       THEN /\ store' = [t \in DOMAIN store |->
                                            IF t \in DOMAIN got
                                            THEN SaveTickerData(store[t], got[t])
                                            ELSE store[t]]
                            /\ dirs' = dirs \cup DOMAIN got
                       ELSE UNCHANGED <<store, dirs>>
                    /\ AfterDateBatch(DictUpdate(result, got),
                                      <<Sleep("batch_delay", BATCH_DELAY, 0)>>)
                    /\ UNCHANGED <<t_idx, attempt>>
           ELSE IF FallsBackToSingles(out.kind)
           THEN /\ pc' = "d_single"
                /\ t_idx' = 0
                /\ attempt' = 0
                /\ slept' = <<Sleep("rate_limit", DateBatchWait(batch_idx), JITTER_BATCH)>>
                /\ UNCHANGED <<store, dirs, day, batch_idx, result, ret>>
           ELSE /\ AfterDateBatch(result, <<>>)
                /\ UNCHANGED <<store, dirs, t_idx, attempt>>
    /\ last_call' = NoCall
    /\ UNCHANGED <<now, disk, args, daily_chunks, price_data, batch_results, upd>>

\* whether the per-symbol loop makes another attempt after a failed attempt k
DateSingleRetries(kind, k, max_retries) ==
    kind = "rate_limited" /\ AttemptsRemain(k, max_retries)

\* the sleeps of a failed attempt of the per-symbol loop
DateSingleFailureSleeps(kind, k) ==
    IF kind = "rate_limited" THEN <<Sleep("rate_limit", BackoffWait(k), JITTER_SINGLE)>>
    ELSE <<>>

\* one attempt of the per-symbol loop that follows a rate-limited bulk request
DateSingleAttempt ==
    /\ pc = "d_single"
    /\ \E out \in HistoryOutcomes :
        /\ issued' = <<History(Ticker, args.start_date, args.end_date)>>
        /\ replied' = HistoryReply(out) /\ aux_replied' = NoAux
        /\ IF out.kind = "data" /\ ~IsEmpty(out.hist)
           THEN /\ SaveIfDir(Ticker, PriceResult(out.hist))
                /\ last_call' = Returned("date_single", attempt + 1, PriceResult(out.hist))
                /\ attempt' = 0
                /\ AfterDateTicker(Put(result, Ticker, PriceResult(out.hist)), <<>>)
           ELSE /\ UNCHANGED <<store, dirs>>
                /\ IF DateSingleRetries(out.kind, attempt, args.max_retries)
                   THEN /\ attempt' = attempt + 1
                        /\ slept' = DateSingleFailureSleeps(out.kind, attempt)
                        /\ last_call' = NoCall
                        /\ UNCHANGED <<pc, day, batch_idx, t_idx, result, ret>>
                   ELSE /\ last_call' = Returned("date_single", attempt + 1, EmptyDict)
                        /\ attempt' = 0
                        /\ AfterDateTicker(result, DateSingleFailureSleeps(out.kind, attempt))
    /\ UNCHANGED <<now, disk, args, daily_chunks, price_data, batch_results, upd>>

(* ------------------------------------------------------------------ *)
(* updater.py                                                         *)
(* ------------------------------------------------------------------ *)
UpdTicker == upd.tickers[upd.idx + 1]

\* start_date = latest_date + timedelta(days=1)
\* the start date if the fetch began on the latest stored date itself
StartOnLatest(latest_date) == latest_date

StartDate(latest_date) == latest_date + Day

\* results[ticker] = <the return of update_ticker_data>, then the next ticker or the
\* return of update_data_for_tickers
\* the loop of update_data_for_tickers if a failed symbol ended the run
AbandonUpdate(u, success) ==
    LET results == Put(u.results, u.tickers[u.idx + 1], success)
    IN  IF success /\ u.idx + 1 < Len(u.tickers)
        THEN /\ pc' = "update"
             /\ upd' = [u EXCEPT !.results = results, !.idx = @ + 1]
             /\ ret' = ret
        ELSE /\ pc' = "done"
             /\ upd' = [u EXCEPT !.results = results]
             /\ ret' = TopReturn("update_data_for_tickers", results)

AfterUpdate(u, success) ==
    LET results == Put(u.results, UpdTicker, success)
    IN  IF upd.idx + 1 < Len(upd.tickers)
        THEN /\ pc' = "update"
             /\ upd' = [u EXCEPT !.results = results, !.idx = @ + 1]
             /\ ret' = ret
        ELSE /\ pc' = "done"
             /\ upd' = [u EXCEPT !.results = results]
             /\ ret' = TopReturn("update_data_for_tickers", results)

UpdateDataForTickers(tickers) ==
    /\ pc = "idle"
    /\ upd' = [NoUpdate EXCEPT !.active = TRUE, !.tickers = tickers]
    /\ IF tickers = <<>>
       THEN pc' = "done" /\ ret' = TopReturn("update_data_for_tickers", EmptyDict)
       ELSE pc' = "update" /\ ret' = NoReturn
    /\ UNCHANGED <<now, disk, store, dirs, args, daily_chunks, day, batch_idx, t_idx, attempt,
                   price_data, batch_results, result, slept, issued, replied, aux_replied, last_call>>

\* update_ticker_data: no stored ohlcv table, nothing to extend
UpdateNoData ==
    /\ pc = "update"
    /\ GetLatestDate(UpdTicker, "ohlcv") = NoDate
    /\ AfterUpdate([upd EXCEPT !.existing_data = EmptyDict, !.new_data = EmptyDict,
                               !.merged_data = EmptyDict], FALSE)
    /\ slept' = <<>> /\ issued' = <<>> /\ replied' = NoReply /\ aux_replied' = NoAux /\ last_call' = NoCall
    /\ UNCHANGED <<now, disk, store, dirs, args, daily_chunks, day, batch_idx, t_idx, attempt,
                   price_data, batch_results, result>>

\* update_ticker_data: the start date is in the future, already up to date
UpdateUpToDate ==
    /\ pc = "update"
    /\ GetLatestDate(UpdTicker, "ohlcv") # NoDate
    /\ StartDate(GetLatestDate(UpdTicker, "ohlcv")) > now
    /\ AfterUpdate([upd EXCEPT !.existing_data = EmptyDict, !.new_data = EmptyDict,
                               !.merged_data = EmptyDict], TRUE)
    /\ slept' = <<>> /\ issued' = <<>> /\ replied' = NoReply /\ aux_replied' = NoAux /\ last_call' = NoCall
    /\ UNCHANGED <<now, disk, store, dirs, args, daily_chunks, day, batch_idx, t_idx, attempt,
                   price_data, batch_results, result>>

\* update_ticker_data: fetch_data_from_date([ticker], start_date, end_date, interval)
UpdateFetch ==
    /\ pc = "update"
    /\ GetLatestDate(UpdTicker, "ohlcv") # NoDate
    /\ StartDate(GetLatestDate(UpdTicker, "ohlcv")) <= now
    /\ args' = [fn |-> "fetch_data_from_date", tickers |-> <<UpdTicker>>,
                data_dir |-> FALSE, force_refresh |-> FALSE,
                max_retries |-> MAX_RETRIES, batch_size |-> BATCH_SIZE,
                daily_limit |-> DAILY_LIMIT,
                start_date |-> StartDate(GetLatestDate(UpdTicker, "ohlcv")),
                end_date |-> now]
    /\ daily_chunks' = ChunkList(<<UpdTicker>>, DAILY_LIMIT)
    /\ day' = 0 /\ batch_idx' = 0 /\ t_idx' = 0 /\ attempt' = 0
    /\ result' = EmptyDict
    /\ upd' = [upd EXCEPT !.existing_data = EmptyDict, !.new_data = EmptyDict,
                          !.merged_data = EmptyDict]
    /\ pc' = "d_batch"
    /\ slept' = <<>> /\ issued' = <<>> /\ replied' = NoReply /\ aux_replied' = NoAux /\ last_call' = NoCall
    /\ UNCHANGED <<now, disk, store, dirs, price_data, batch_results, ret>>

\* update_ticker_data: the fetch gave nothing for the ticker
UpdateNoNewData ==
    /\ pc = "merge"
    /\ UpdTicker \notin DOMAIN result
    /\ AfterUpdate(upd, FALSE)
    /\ slept' = <<>> /\ issued' = <<>> /\ replied' = NoReply /\ aux_replied' = NoAux /\ last_call' = NoCall
    /\ UNCHANGED <<now, disk, store, dirs, args, daily_chunks, day, batch_idx, t_idx, attempt,
                   price_data, batch_results, result>>

\* update_ticker_data: load, merge, save
UpdateMergeSave ==
    /\ pc = "merge"
    /\ UpdTicker \in DOMAIN result
    /\ LET existing_data == LoadTickerData(UpdTicker)
           merged_data == MergeData(existing_data, result[UpdTicker])
       IN  /\ store' = StoreAfterSave(store, UpdTicker, merged_data)
           /\ dirs' = dirs \cup {UpdTicker}
           /\ AfterUpdate([upd EXCEPT !.existing_data = existing_data,
                                      !.new_data = result[UpdTicker],
                                      !.merged_data = merged_data], TRUE)
    /\ slept' = <<>> /\ issued' = <<>> /\ replied' = NoReply /\ aux_replied' = NoAux /\ last_call' = NoCall
    /\ UNCHANGED <<now, disk, args, daily_chunks, day, batch_idx, t_idx, attempt,
                   price_data, batch_results, result>>

(* ------------------------------------------------------------------ *)
(* The specification                                                  *)
(* ------------------------------------------------------------------ *)
\* what a successful fetch of the whole history left in the Store on day k
FetchedOn(k) ==
    SaveTickerData(EmptyDict, WithAux(PriceResult(TableOf({d * Day : d \in 1..k}, k)), AuxOk, k))

\* the Store of one symbol when a call starts: nothing, or an earlier day's fetch
CacheChoices == {EmptyDict} \cup {FetchedOn(k) : k \in 1..MaxDay}

Quiet ==
    /\ pc = "idle"
    /\ args = NoArgs
    /\ daily_chunks = <<>>
    /\ day = 0 /\ batch_idx = 0 /\ t_idx = 0 /\ attempt = 0
    /\ price_data = EmptyDict /\ batch_results = EmptyDict /\ result = EmptyDict
    /\ upd = NoUpdate
    /\ slept = <<>>
    /\ issued = <<>>
    /\ replied = NoReply
    /\ aux_replied = NoAux
    /\ last_call = NoCall
    /\ ret = NoReturn

\* a call starts on the last trading day, at midnight or at noon
Init ==
    /\ now \in {MaxDay * Day, MaxDay * Day + Day \div 2}
    /\ disk = [config |-> [exists |-> FALSE, valid |-> FALSE, content |-> EmptyDict],
               data_dirs |-> {}]
    /\ store \in [Symbols -> CacheChoices]
    /\ dirs = {t \in Symbols : DOMAIN store[t] # {}}
    /\ Quiet

Next ==
    \/ \E tickers \in TickerLists, data_dir \in BOOLEAN, force_refresh \in BOOLEAN,
          max_retries \in RetryBudgets, batch_size \in ChunkSizes, daily_limit \in ChunkSizes :
          FetchDataForTickers(tickers, data_dir, force_refresh, max_retries, batch_size, daily_limit)
    \/ SkipCachedBatch
    \/ BatchDownloadAttempt
    \/ TickerFromBatchCachedAux
    \/ TickerFromBatchFetchAux
    \/ FetchWithRetryCached
    \/ FetchWithRetryAttempt
    \/ \E tickers \in TickerLists, start_date \in TradingDates, data_dir \in BOOLEAN,
          max_retries \in RetryBudgets, batch_size \in ChunkSizes, daily_limit \in ChunkSizes :
          FetchDataFromDate(tickers, start_date, data_dir, max_retries, batch_size, daily_limit)
    \/ DateDownload
    \/ DateSingleAttempt
    \/ \E tickers \in UpdateLists : UpdateDataForTickers(tickers)
    \/ UpdateNoData
    \/ UpdateUpToDate
    \/ UpdateFetch
    \/ UpdateNoNewData
    \/ UpdateMergeSave

Spec == Init /\ [][Next]_vars

(* ------------------------------------------------------------------ *)
(* The merge of update_ticker_data, over any two price tables         *)
(* ------------------------------------------------------------------ *)
\* the dates of a price table: consecutive days among 1 .. MaxDate, or any days among
\* 1 .. MaxSparse
MergeDateSets ==
    {{d * Day : d \in a..b} : a \in 1..MaxDate, b \in 1..MaxDate}
    \cup {{d * Day : d \in S} : S \in SUBSET (1..MaxSparse)}

\* update_ticker_data of one symbol, after its fetch returned: the stored quotes were
\* served on day 1, the fetched ones on day 1 (the same values) or on day 2
MergeInit ==
    \E S1 \in MergeDateSets \ {{}}, S2 \in MergeDateSets \ {{}}, v \in 1..2 :
        /\ now = MaxDate * Day
        /\ disk = [config |-> [exists |-> FALSE, valid |-> FALSE, content |-> EmptyDict],
                   data_dirs |-> {}]
        /\ store = [t \in Symbols |->
                       IF t = SymbolOrder[1]
                       THEN SaveTickerData(EmptyDict, PriceResult(TableOf(S1, 1)))
                       ELSE EmptyDict]
        /\ dirs = {SymbolOrder[1]}
        /\ pc = "merge"
        /\ args = [fn |-> "fetch_data_from_date", data_dir |-> FALSE, force_refresh |-> FALSE,
                   max_retries |-> MAX_RETRIES, batch_size |-> BATCH_SIZE,
                   daily_limit |-> DAILY_LIMIT, start_date |-> StartDate(SetMax(S1)),
                   end_date |-> MaxDate * Day]
        /\ daily_chunks = ChunkList(<<SymbolOrder[1]>>, DAILY_LIMIT)
        /\ day = 0 /\ batch_idx = 0 /\ t_idx = 0 /\ attempt = 0
        /\ price_data = EmptyDict /\ batch_results = EmptyDict
        /\ result = [t \in {SymbolOrder[1]} |-> PriceResult(TableOf(S2, v))]
        /\ upd = [NoUpdate EXCEPT !.active = TRUE, !.tickers = <<SymbolOrder[1]>>]
        /\ slept = <<>>
        /\ issued = <<>>
        /\ replied = NoReply
        /\ aux_replied = NoAux
        /\ last_call = NoCall
        /\ ret = NoReturn

MergeNext == UpdateMergeSave

MergeSpec == MergeInit /\ [][MergeNext]_vars

\* the dates D(a) .. D(b)
Dates(a, b) == {d * Day : d \in a..b}

\* an update merged and saved: the tables it read, fetched and wrote are in upd
Merged == upd.active /\ DOMAIN upd.merged_data # {}

\* C1: when update_ticker_data merges a stored and a fetched table of a kind, the merged
\* table has exactly the dates of the two (D1..D5 and D4..D8 give D1..D8), each once,
\* ascending, and the row of every date the fetched table has is the fetched row (D4, D5),
\* the others being the stored rows.
C1_MergeOverlap ==
    Merged =>
        \A k \in (DOMAIN upd.existing_data) \cap (DOMAIN upd.new_data) :
            LET existing == upd.existing_data[k]
                new == upd.new_data[k]
                merged == upd.merged_data[k]
            IN  /\ IndexSet(merged) = IndexSet(existing) \cup IndexSet(new)
                /\ StrictlyIncreasing(merged)
                /\ \A i \in 1..Len(merged) :
                      IF merged[i][1] \in IndexSet(new)
                      THEN merged[i] \in Range(new)
                      ELSE merged[i] \in Range(existing)
                /\ store[SymbolOrder[1]][k] = merged

\* stored D1..D5, fetched D4..D8 with other values: merged D1..D8
C1_Witness ==
    /\ Merged
    /\ IndexSet(upd.existing_data["ohlcv"]) = Dates(1, 5)
    /\ IndexSet(upd.new_data["ohlcv"]) = Dates(4, 8)
    /\ upd.new_data["ohlcv"][1] # upd.existing_data["ohlcv"][4]
    /\ Index(store[SymbolOrder[1]]["ohlcv"]) = [i \in 1..8 |-> i * Day]

\* C3: merging a table with an identical table (same index, same values) gives the
\* table itself: same row count, same content.
C3_MergeIdempotent ==
    [][(pc = "merge" /\ UpdTicker \in DOMAIN result
            /\ result[UpdTicker] = store[UpdTicker])
          => /\ store'[UpdTicker] = store[UpdTicker]
             /\ \A k \in DOMAIN store[UpdTicker] :
                   Len(upd'.merged_data[k]) = Len(store[UpdTicker][k])]_vars

\* a table of three rows or more was merged with itself
C3_Witness ==
    /\ Merged
    /\ upd.existing_data = upd.new_data
    /\ Len(upd.existing_data["ohlcv"]) >= 3
    /\ upd.merged_data = upd.existing_data

\* C2: while update_ticker_data runs, call after call, the stored ohlcv table of a symbol
\* never loses a date it had, and never has a date twice.
C2_UpdateMonotonic ==
    [][upd'.active =>
          \A t \in Symbols :
              "ohlcv" \in DOMAIN store[t] =>
                  /\ "ohlcv" \in DOMAIN store'[t]
                  /\ IndexSet(store[t]["ohlcv"]) \subseteq IndexSet(store'[t]["ohlcv"])
                  /\ NoDuplicateIndex(store'[t]["ohlcv"])]_vars

\* an update merged a fetched range that overlaps the stored one and extends it
C2_Witness ==
    /\ Merged
    /\ IndexSet(upd.existing_data["ohlcv"]) \cap IndexSet(upd.new_data["ohlcv"]) # {}
    /\ IndexSet(upd.new_data["ohlcv"]) \ IndexSet(upd.existing_data["ohlcv"]) # {}
    /\ \E t \in Symbols : "ohlcv" \in DOMAIN store[t] /\ store[t]["ohlcv"] = upd.merged_data["ohlcv"]

\* C4: the merged data of an update has exactly the kinds of the stored data and of the
\* fetched data; a kind only the stored data has is kept as it is, a kind only the
\* fetched data has is adopted as it is.
C4_MergedKinds ==
    Merged =>
        /\ DOMAIN upd.merged_data = (DOMAIN upd.existing_data) \cup (DOMAIN upd.new_data)
        /\ \A k \in (DOMAIN upd.existing_data) \ (DOMAIN upd.new_data) :
              upd.merged_data[k] = upd.existing_data[k]
        /\ \A k \in (DOMAIN upd.new_data) \ (DOMAIN upd.existing_data) :
              upd.merged_data[k] = upd.new_data[k]

\* an update merged stored data with a kind the fetch lacks and fetched data with a kind
\* the Store lacks
C4_Witness ==
    /\ Merged
    /\ (DOMAIN upd.existing_data) \ (DOMAIN upd.new_data) # {}
    /\ (DOMAIN upd.new_data) \ (DOMAIN upd.existing_data) # {}
    /\ (DOMAIN upd.new_data) \cap (DOMAIN upd.existing_data) # {}

(* ------------------------------------------------------------------ *)
(* fetch_data_for_tickers against a remote that only fails            *)
(* ------------------------------------------------------------------ *)
\* a period fetch without a data directory, every price request of which fails: by a
\* rate-limit signal, by another error or by an empty payload
FailNext ==
    \/ \E tickers \in TickerLists, force_refresh \in BOOLEAN, max_retries \in RetryBudgets,
          batch_size \in ChunkSizes, daily_limit \in ChunkSizes :
          FetchDataForTickers(tickers, FALSE, force_refresh, max_retries, batch_size, daily_limit)
    \/ BatchDownloadAttemptOf(Failures)
    \/ FetchWithRetryAttemptOf(Failures)

FailSpec == Init /\ [][FailNext]_vars

\* the pcs of the retry loops: fetch_batch_price_data, fetch_with_retry, and the
\* per-symbol loop of fetch_data_from_date
BulkLoop == {"batch", "bulk"}

SingleLoop == {"ticker", "single"}

DateLoop == {"d_single"}

\* C5: fetch_with_retry and fetch_batch_price_data make at most max_retries remote
\* attempts; when the last attempt failed too (so every attempt failed) they return the
\* empty result, having made max_retries attempts, and raise nothing.
C5_BoundedAttempts ==
    last_call.fn \in {"fetch_with_retry", "fetch_batch_price_data"} =>
        /\ last_call.attempts <= args.max_retries
        /\ ~last_call.raised
        /\ replied \in Failures =>
              /\ last_call.value = EmptyDict
              /\ last_call.attempts = args.max_retries

\* fetch_with_retry returned empty-handed after the five attempts of the default budget
C5_Witness ==
    /\ last_call.fn = "fetch_with_retry"
    /\ replied = "error"
    /\ args.max_retries = 5
    /\ last_call.attempts = 5
    /\ last_call.value = EmptyDict

\* C6: a rate-limit failure at zero-based attempt k is followed by a sleep of 30 * 2^k
\* seconds (30, 60, 120, 240, 480 for k = 0..4) plus a jitter of at most 3 seconds
\* (per-symbol loops) or 5 seconds (bulk loop), and then, attempts remaining, by
\* attempt k + 1 of the same request.
C6_ExponentialBackoff ==
    [][(pc \in BulkLoop \cup SingleLoop \cup DateLoop /\ replied' = "rate_limited") =>
          /\ Len(slept') >= 1
          /\ slept'[1] = [why |-> "rate_limit",
                          secs |-> <<30, 60, 120, 240, 480>>[attempt + 1],
                          jitter |-> IF pc \in BulkLoop THEN 5 ELSE 3]
          /\ attempt + 1 < args.max_retries =>
                /\ attempt' = attempt + 1
                /\ pc' = IF pc \in BulkLoop THEN "bulk"
                         ELSE IF pc \in SingleLoop THEN "single" ELSE "d_single"
                /\ <<day', batch_idx', t_idx'>> = <<day, batch_idx, t_idx>>]_vars

\* the fifth attempt in a row was refused for the rate limit: the wait was 480 seconds
C6_Witness ==
    /\ replied = "rate_limited"
    /\ last_call.attempts = 5
    /\ Len(slept) >= 1
    /\ slept[1].why = "rate_limit"
    /\ slept[1].secs = 480

\* C7: in every retry loop, a failure that is no rate-limit signal (another error, an
\* empty payload) with attempts remaining is followed by the fixed pacing delay alone
\* (REQUEST_DELAY; the bulk loop's own fixed delay, BATCH_DELAY, is let pass here) and
\* by the next attempt of the same request.
C7_OtherFailureRetried ==
    [][(/\ pc \in BulkLoop \cup SingleLoop \cup DateLoop
        /\ replied' \in {"error", "empty"}
        /\ attempt + 1 < args.max_retries) =>
          /\ slept' = IF pc \in BulkLoop
                       THEN <<[why |-> "batch_delay", secs |-> BATCH_DELAY, jitter |-> 0]>>
                       ELSE <<[why |-> "request_delay", secs |-> REQUEST_DELAY, jitter |-> 0]>>
          /\ attempt' = attempt + 1
          /\ pc' = IF pc \in BulkLoop THEN "bulk"
                   ELSE IF pc \in SingleLoop THEN "single" ELSE "d_single"
          /\ <<day', batch_idx', t_idx'>> = <<day, batch_idx, t_idx>>]_vars

\* where the orchestration is once the ticker at <<day, batch_idx, t_idx>> is done
NextInOrder ==
    IF t_idx + 1 < Len(Batch)
    THEN pc' = "ticker" /\ <<day', batch_idx', t_idx'>> = <<day, batch_idx, t_idx + 1>>
    ELSE IF batch_idx + 1 < Len(PriceBatches)
    THEN pc' = "batch" /\ <<day', batch_idx', t_idx'>> = <<day, batch_idx + 1, 0>>
    ELSE IF day + 1 < Len(daily_chunks)
    THEN pc' = "batch" /\ <<day', batch_idx', t_idx'>> = <<day + 1, 0, 0>>
    ELSE pc' = "done"

\* C8: whatever the failures of the remote, fetch_data_for_tickers raises nothing and
\* skips nothing: a bulk request or a symbol whose attempts are exhausted (max_retries
\* of them, three when max_retries is 3) gives the empty result, the next symbol or
\* batch in order is attempted after it, and the call returns the map of the symbols
\* that succeeded, which is empty.
C8_FailuresNeverAbort ==
    [][/\ ~ret'.raised
       /\ ~last_call'.raised
       /\ last_call'.fn # "" =>
             last_call'.value = EmptyDict /\ last_call'.attempts = args.max_retries
       /\ (pc \in BulkLoop /\ last_call'.fn = "fetch_batch_price_data") =>
             pc' = "ticker" /\ <<day', batch_idx', t_idx'>> = <<day, batch_idx, 0>>
       /\ pc \in SingleLoop =>
             /\ issued' = <<History(Ticker, NoDate, NoDate)>>
             /\ last_call'.fn = "fetch_with_retry" => NextInOrder
             /\ last_call'.fn # "fetch_with_retry" => pc' = "single"
       /\ (pc' = "done" /\ pc # "idle") =>
             ret' = [fn |-> "fetch_data_for_tickers", value |-> EmptyDict, raised |-> FALSE]]_vars

\* the remote refused the last attempt for the rate limit, max_retries being 3: the
\* second of two symbols got its third refusal and the call returned the empty map
C8_Witness ==
    /\ pc = "done"
    /\ args.fn = "fetch_data_for_tickers"
    /\ args.max_retries = 3
    /\ Len(daily_chunks) >= 1
    /\ Ticker = SymbolOrder[2]
    /\ replied = "rate_limited"
    /\ last_call = [fn |-> "fetch_with_retry", attempts |-> 3, value |-> EmptyDict,
                    raised |-> FALSE]
    /\ ret.value = EmptyDict

\* C9: in fetch_data_for_tickers with a data directory, force_refresh false and every
\* symbol of the batch fresh, the batch issues no remote request and leaves the Store
\* alone, and its results are the tables loaded from the Store.
C9_FreshBatchSkipped ==
    [][(/\ pc = "batch"
        /\ args.fn = "fetch_data_for_tickers"
        /\ args.data_dir /\ ~args.force_refresh
        /\ \A t \in Range(Batch) : IsCacheValid(t, "ohlcv", MAX_AGE_DAYS)) =>
          /\ issued' = <<>>
          /\ slept' \in {<<>>, <<[why |-> "day_delay", secs |-> 60, jitter |-> 0]>>}
          /\ store' = store
          /\ pc' \in {"batch", "done"}
          /\ <<day', batch_idx'>> # <<day, batch_idx>> \/ pc' = "done"
          /\ \A t \in Range(Batch) :
                LET got == IF pc' = "batch" /\ day' = day THEN batch_results' ELSE result'
                IN  t \in DOMAIN got /\ got[t] = store[t]]_vars

\* a call whose only batch, of two symbols, was fresh: it returned the stored tables
\* without a request
C9_Witness ==
    /\ pc = "done"
    /\ args.fn = "fetch_data_for_tickers"
    /\ UsesCache
    /\ Len(daily_chunks) = 1 /\ Len(PriceBatches) = 1 /\ Len(Batch) = 2
    /\ price_data = EmptyDict
    /\ last_call = NoCall
    /\ issued = <<>>
    /\ \A t \in Range(Batch) : t \in DOMAIN ret.value /\ ret.value[t] = store[t]

\* C10: a bulk request that fails totally (in period mode no data once its attempts are
\* exhausted, in date-range mode an error of the one request) is followed by a
\* per-symbol fetch of every member of the batch, from the first on.
C10_BulkFailureFallsBack ==
    [][/\ (pc \in BulkLoop /\ last_call'.fn = "fetch_batch_price_data"
              /\ last_call'.value = EmptyDict) =>
             pc' = "ticker" /\ <<day', batch_idx', t_idx'>> = <<day, batch_idx, 0>>
       /\ (pc = "ticker" /\ price_data = EmptyDict) =>
             \/ last_call'.fn = "fetch_with_retry"
             \/ Len(issued') >= 1 /\ issued'[1] = History(Ticker, NoDate, NoDate)
       /\ (pc = "d_batch" /\ replied' \in {"rate_limited", "error"}) =>
             pc' = "d_single" /\ <<day', batch_idx', t_idx'>> = <<day, batch_idx, 0>>
       /\ pc = "d_single" =>
             issued' = <<History(Ticker, args.start_date, args.end_date)>>]_vars

\* C11: a symbol of the batch that a successful bulk response has no rows for gets an
\* individual retry-wrapped fetch of its own, in period mode (fetch_with_retry) and in
\* date-range mode (the per-symbol loop).
C11_AbsentSymbolFetchedAlone ==
    [][/\ (pc = "ticker" /\ args.fn = "fetch_data_for_tickers"
              /\ DOMAIN price_data # {} /\ ~HasPriceData) =>
             \/ last_call'.fn = "fetch_with_retry"
             \/ pc' = "single" /\ issued' = <<History(Ticker, NoDate, NoDate)>>
       /\ (pc = "d_batch" /\ replied' = "data"
              /\ \E t \in Range(Batch) : t \notin DOMAIN result') =>
             pc' = "d_single"]_vars

(* ------------------------------------------------------------------ *)
(* One symbol fetched in period mode, any accessor failing            *)
(* ------------------------------------------------------------------ *)
\* fetch_data_for_tickers of one symbol with force_refresh: the price request gives
\* rows or nothing, and each of the five accessors gives a table, nothing or an error
AuxNext ==
    \/ \E data_dir \in BOOLEAN, max_retries \in RetryBudgets :
          FetchDataForTickers(<<SymbolOrder[1]>>, data_dir, TRUE, max_retries,
                              BATCH_SIZE, DAILY_LIMIT)
    \/ BatchDownloadAttemptOf({"data", "empty"})
    \/ TickerFromBatchFetchAuxOf(AllAuxOutcomes)
    \/ FetchWithRetryAttemptWith({"data"}, AllAuxOutcomes)

AuxSpec == Init /\ [][AuxNext]_vars

\* C12: the five auxiliary kinds are fetched independently: whatever subset of them
\* fails (by an error or by an empty answer), all five accessors are requested, exactly
\* the failed kinds are missing from the symbol's result, and the result, with its
\* ohlcv table, is returned and, with a data directory, persisted.
C12_AuxIndependent ==
    [][aux_replied' # NoAux =>
          LET got == IF Ticker \in DOMAIN batch_results' THEN batch_results'[Ticker]
                     ELSE result'[Ticker]
              ok == {k \in AuxKinds : aux_replied'[k] = "ok"}
          IN  /\ Len(issued') >= 5
              /\ SubSeq(issued', Len(issued') - 4, Len(issued')) =
                    [i \in 1..5 |-> [api |-> AuxOrder[i], tickers |-> <<Ticker>>,
                                     start |-> NoDate, end |-> NoDate]]
              /\ (DOMAIN got) \cap AuxKinds = ok
              /\ "ohlcv" \in DOMAIN got /\ ~IsEmpty(got["ohlcv"])
              /\ pc' = "done" => ret'.value[Ticker] = got
              /\ args.data_dir =>
                    \A k \in ok \cup {"ohlcv"} :
                        k \in DOMAIN store'[Ticker] /\ store'[Ticker][k] = got[k]]_vars

\* one accessor raised, another answered empty, the three others gave their tables: the
\* result has those three and the prices, and is in the Store
C12_Witness ==
    /\ pc = "done"
    /\ args.data_dir
    /\ aux_replied # NoAux
    /\ aux_replied["financials"] = "raised"
    /\ aux_replied["cashflow"] = "empty"
    /\ (DOMAIN ret.value[SymbolOrder[1]]) \cap AuxKinds = {"info", "balance_sheet", "earnings"}
    /\ store[SymbolOrder[1]]["ohlcv"] = ret.value[SymbolOrder[1]]["ohlcv"]

Persisted(t, data) ==
    /\ t \in dirs
    /\ \A k \in DOMAIN data : k \in DOMAIN store[t] /\ store[t][k] = data[k]

\* every row of data is in the Store under the symbol
RowsPersisted(t, data) ==
    /\ t \in dirs
    /\ \A k \in DOMAIN data : k \in DOMAIN store[t] /\ Range(data[k]) \subseteq Range(store[t][k])

\* C14: at every point of a run, the results obtained so far are in the Store: those of
\* a fetch with a data directory (period or date-range mode) as soon as obtained, so
\* before the next symbol is processed; those of an update, whose fetch has no data
\* directory, once update_ticker_data has merged and saved them, which it does before
\* the next symbol is processed.
C14_WriteThrough ==
    /\ (~upd.active /\ args.data_dir) =>
          /\ \A t \in DOMAIN batch_results : Persisted(t, batch_results[t])
          /\ \A t \in DOMAIN result : Persisted(t, result[t])
    /\ (upd.active /\ pc # "merge") =>
          \A t \in DOMAIN result : RowsPersisted(t, result[t])

\* a period fetch with force_refresh is about to process the second symbol of a batch:
\* the result of the first, just fetched, is in the Store already
C14_Witness ==
    /\ pc = "ticker"
    /\ args.data_dir /\ args.force_refresh
    /\ t_idx = 1
    /\ Batch[1] \in DOMAIN batch_results
    /\ Batch[2] \notin DOMAIN batch_results
    /\ aux_replied # NoAux
    /\ Persisted(Batch[1], batch_results[Batch[1]])

(* ------------------------------------------------------------------ *)
(* save_ticker_data alone, over data with empty and missing tables    *)
(* ------------------------------------------------------------------ *)
\* the kinds of the data saved: a time-series kind and a statement kind
SaveKinds == {"ohlcv", "info"}

\* the tables saved: none of a row, of one row, of two rows
SaveTables == {<<>>, TableOf({Day}, 1), TableOf({Day, 2 * Day}, 2)}

SaveDicts(tables) == UNION {[K -> tables] : K \in SUBSET SaveKinds}

\* save_ticker_data(ticker, data, data_dir) is about to be called for the first symbol,
\* whose directory has some tables or none
SaveInit ==
    \E files \in SaveDicts(SaveTables \ {<<>>}), data \in SaveDicts(SaveTables) :
        /\ now = MaxDay * Day
        /\ disk = [config |-> [exists |-> FALSE, valid |-> FALSE, content |-> EmptyDict],
                   data_dirs |-> {}]
        /\ store = [t \in Symbols |-> IF t = SymbolOrder[1] THEN files ELSE EmptyDict]
        /\ dirs = {t \in Symbols : DOMAIN store[t] # {}}
        /\ pc = "save"
        /\ args = [NoArgs EXCEPT !.fn = "save_ticker_data", !.data_dir = TRUE]
        /\ daily_chunks = <<>>
        /\ day = 0 /\ batch_idx = 0 /\ t_idx = 0 /\ attempt = 0
        /\ price_data = EmptyDict /\ batch_results = EmptyDict
        /\ result = [t \in {SymbolOrder[1]} |-> data]
        /\ upd = NoUpdate
        /\ slept = <<>>
        /\ issued = <<>>
        /\ replied = NoReply
        /\ aux_replied = NoAux
        /\ last_call = NoCall
        /\ ret = NoReturn

\* save_ticker_data(ticker, data, data_dir)
SaveTickerDataCall ==
    /\ pc = "save"
    /\ \E ticker \in DOMAIN result :
        /\ store' = StoreAfterSave(store, ticker, result[ticker])
        /\ dirs' = dirs \cup {ticker}
        /\ ret' = TopReturn("save_ticker_data", [t \in {ticker} |-> TRUE])
    /\ pc' = "done"
    /\ UNCHANGED <<now, disk, args, daily_chunks, day, batch_idx, t_idx, attempt, price_data,
                   batch_results, result, upd, slept, issued, replied, aux_replied, last_call>>

SaveSpec == SaveInit /\ [][SaveTickerDataCall]_vars

\* C15: save_ticker_data writes no empty table: a kind whose table in the data is empty
\* or missing is not written, and the table stored for it before, if any, stays as it
\* was; the other kinds are written as given.
C15_NoEmptyTableWritten ==
    [][pc = "save" =>
          \A t \in DOMAIN result : \A k \in Kinds :
              /\ k \in DOMAIN store'[t] => ~IsEmpty(store'[t][k])
              /\ IF k \in DOMAIN result[t] /\ ~IsEmpty(result[t][k])
                 THEN k \in DOMAIN store'[t] /\ store'[t][k] = result[t][k]
                 ELSE /\ k \in DOMAIN store'[t] <=> k \in DOMAIN store[t]
                      /\ k \in DOMAIN store[t] => store'[t][k] = store[t][k]]_vars

\* data with an empty ohlcv table and an info table was saved over stored ohlcv and
\* info tables: the stored ohlcv table is the old one, the info table the new one
C15_Witness ==
    /\ pc = "done"
    /\ ret.fn = "save_ticker_data"
    /\ result[SymbolOrder[1]] = [k \in SaveKinds |->
                                    IF k = "ohlcv" THEN <<>> ELSE TableOf({Day, 2 * Day}, 2)]
    /\ store[SymbolOrder[1]] = [k \in SaveKinds |->
                                   IF k = "ohlcv" THEN TableOf({Day}, 1)
                                   ELSE TableOf({Day, 2 * Day}, 2)]

\* C16: every persisted time-series table (ohlcv, dividends, splits) has a strictly
\* increasing date index, no date twice, whatever fetch or update has run.
C16_PersistedIndexIncreasing ==
    \A t \in Symbols : \A k \in TimeKinds \cap DOMAIN store[t] :
        StrictlyIncreasing(store[t][k])

\* an update merged fetched rows that overlap the stored ones and stored the merged
\* ohlcv table, longer than the one it replaced, next to a merged dividends table
C16_Witness ==
    /\ Merged
    /\ \E t \in Symbols :
        /\ {"ohlcv", "dividends"} \subseteq DOMAIN store[t]
        /\ \A k \in {"ohlcv", "dividends"} :
              k \in DOMAIN upd.merged_data /\ store[t][k] = upd.merged_data[k]
        /\ IndexSet(upd.existing_data["ohlcv"]) \cap IndexSet(upd.new_data["ohlcv"]) # {}
        /\ Len(store[t]["ohlcv"]) > Len(upd.existing_data["ohlcv"])
        /\ Len(store[t]["ohlcv"]) >= 2

\* C17: a step that processes a symbol changes the persisted tables of no other symbol
\* (the bulk step of fetch_data_from_date, which processes a whole batch, gives each
\* symbol of the batch its own rows), and a symbol that fails, in fetch_data_for_tickers
\* or in update_data_for_tickers, changes nothing and is followed by the next symbol.
C17_SymbolsIndependent ==
    [][LET current == IF pc = "merge" THEN {UpdTicker}
                      ELSE IF pc = "d_batch" THEN Range(Batch)
                      ELSE IF pc \in SingleLoop \cup DateLoop THEN {Ticker}
                      ELSE {}
       IN  /\ \A b \in Symbols : store'[b] # store[b] => b \in current
           /\ \A b \in Symbols \ current : (b \in dirs') <=> (b \in dirs)
           /\ pc = "d_batch" =>
                 \A b \in Symbols : store'[b] # store[b] =>
                     b \in DOMAIN result' /\ store'[b] = SaveTickerData(store[b], result'[b])
           /\ (pc \in SingleLoop /\ last_call'.fn = "fetch_with_retry"
                                 /\ last_call'.value = EmptyDict) =>
                 store' = store /\ NextInOrder
           /\ (pc \in {"update", "merge"} /\ pc' \in {"update", "done"}
                                          /\ ~upd'.results[UpdTicker]) =>
                 /\ store' = store
                 /\ IF upd.idx + 1 < Len(upd.tickers)
                    THEN pc' = "update" /\ upd'.idx = upd.idx + 1
                    ELSE pc' = "done"]_vars

\* fetch_data_for_tickers with a data directory returned: the first symbol failed and
\* its stored tables are those of the start, the second was fetched after it and stored
C17_Witness ==
    /\ pc = "done"
    /\ args.fn = "fetch_data_for_tickers"
    /\ args.data_dir
    /\ \E i \in 1..Len(daily_chunks) : SymbolOrder[1] \in Range(daily_chunks[i])
    /\ DOMAIN ret.value = {SymbolOrder[2]}
    /\ store[SymbolOrder[1]] \in CacheChoices \ {EmptyDict}
    /\ Persisted(SymbolOrder[2], ret.value[SymbolOrder[2]])
    /\ store[SymbolOrder[2]] \notin CacheChoices

(* ------------------------------------------------------------------ *)
(* utils.py alone: is_cache_valid, prioritize_tickers, chunk_list     *)
(* ------------------------------------------------------------------ *)
\* what a symbol's directory can hold when the cache is asked: no directory, an empty
\* directory, an info table only, or price and info tables whose latest price date is
\* one second older than a day, exactly a day old, or of this instant
CacheStates ==
    {[dir |-> FALSE, files |-> EmptyDict], [dir |-> TRUE, files |-> EmptyDict],
     [dir |-> TRUE, files |-> [k \in {"info"} |-> AuxTable(1)]]}
    \cup {[dir |-> TRUE,
           files |-> [k \in {"ohlcv", "info"} |->
                         IF k = "ohlcv" THEN TableOf({1, latest}, 1) ELSE AuxTable(1)]] :
          latest \in {MaxDay * Day - Day - 1, MaxDay * Day - Day, MaxDay * Day}}

UtilsInit ==
    \E cache \in [Symbols \cup {"CCC"} -> CacheStates] :
        /\ now = MaxDay * Day
        /\ disk = [config |-> [exists |-> FALSE, valid |-> FALSE, content |-> EmptyDict],
                   data_dirs |-> {}]
        /\ store = [t \in DOMAIN cache |-> cache[t].files]
        /\ dirs = {t \in DOMAIN cache : cache[t].dir}
        /\ pc = "idle"
        /\ args = NoArgs
        /\ daily_chunks = <<>>
        /\ day = 0 /\ batch_idx = 0 /\ t_idx = 0 /\ attempt = 0
        /\ price_data = EmptyDict /\ batch_results = EmptyDict /\ result = EmptyDict
        /\ upd = NoUpdate
        /\ slept = <<>>
        /\ issued = <<>>
        /\ replied = NoReply
        /\ aux_replied = NoAux
        /\ last_call = NoCall
        /\ ret = NoReturn

\* is_cache_valid(ticker, data_dir, data_type, max_age_days)
IsCacheValidCall ==
    /\ pc = "idle"
    /\ \E ticker \in DOMAIN store, data_type \in {"ohlcv", "info"}, max_age_days \in 1..2 :
        /\ args' = [fn |-> "is_cache_valid", ticker |-> ticker, data_type |-> data_type,
                    max_age_days |-> max_age_days]
        /\ ret' = TopReturn("is_cache_valid", IsCacheValid(ticker, data_type, max_age_days))
    /\ pc' = "done"
    /\ UNCHANGED <<now, disk, store, dirs, daily_chunks, day, batch_idx, t_idx, attempt, price_data,
                   batch_results, result, upd, slept, issued, replied, aux_replied, last_call>>

\* prioritize_tickers(tickers, data_dir, max_age_days)
PrioritizeTickersCall ==
    /\ pc = "idle"
    /\ \E n \in 0..MaxTickers, max_age_days \in 1..2 : \E tickers \in [1..n -> DOMAIN store] :
        /\ args' = [fn |-> "prioritize_tickers", tickers |-> tickers,
                    max_age_days |-> max_age_days]
        /\ ret' = TopReturn("prioritize_tickers", PrioritizeTickers(tickers, max_age_days))
    /\ pc' = "done"
    /\ UNCHANGED <<now, disk, store, dirs, daily_chunks, day, batch_idx, t_idx, attempt, price_data,
                   batch_results, result, upd, slept, issued, replied, aux_replied, last_call>>

\* chunk_list(items, chunk_size)
ChunkListCall ==
    /\ pc = "idle"
    /\ \E n \in 0..MaxTickers, chunk_size \in (0 - MaxChunk)..MaxChunk :
       \E items \in [1..n -> DOMAIN store] :
        /\ args' = [fn |-> "chunk_list", items |-> items, chunk_size |-> chunk_size]
        /\ ret' = IF chunk_size = 0
                  THEN [fn |-> "chunk_list", value |-> <<>>, raised |-> TRUE]
                  ELSE TopReturn("chunk_list", ChunkList(items, chunk_size))
    /\ pc' = "done"
    /\ UNCHANGED <<now, disk, store, dirs, daily_chunks, day, batch_idx, t_idx, attempt, price_data,
                   batch_results, result, upd, slept, issued, replied, aux_replied, last_call>>

\* symbols as they may be typed: AAPL, brk.b, ^gspc, AA PL, aa_pl, the empty one,
\* toolongsymbolname, and one of ten and one of eleven characters
RawSymbols ==
    {<<"A", "A", "P", "L">>, <<"b", "r", "k", ".", "b">>, <<"^", "g", "s", "p", "c">>,
     <<"A", "A", " ", "P", "L">>, <<"a", "a", "_", "p", "l">>, <<>>,
     <<"t", "o", "o", "l", "o", "n", "g", "s", "y", "m", "b", "o", "l", "n", "a", "m", "e">>,
     <<"a", "b", "c", "-", "1", "2", "3", "4", "5", "z">>,
     <<"a", "b", "c", "-", "1", "2", "3", "4", "5", "z", "z">>}

\* validate_tickers(tickers)
ValidateTickersCall ==
    /\ pc = "idle"
    /\ \E n \in 0..MaxRaw : \E tickers \in [1..n -> RawSymbols] :
        /\ args' = [fn |-> "validate_tickers", tickers |-> tickers]
        /\ ret' = TopReturn("validate_tickers", ValidateTickers(tickers))
    /\ pc' = "done"
    /\ UNCHANGED <<now, disk, store, dirs, daily_chunks, day, batch_idx, t_idx, attempt, price_data,
                   batch_results, result, upd, slept, issued, replied, aux_replied, last_call>>

UtilsSpec ==
    UtilsInit /\ [][IsCacheValidCall \/ PrioritizeTickersCall \/ ChunkListCall
                    \/ ValidateTickersCall]_vars

\* C18: is_cache_valid returns true exactly when a table of the kind is stored for the
\* symbol, has a date index, and its latest date is at or after now - max_age_days; with
\* max_age_days 1 a latest date exactly one day old is valid and one a second older is
\* not; a missing table, or one without a date index, is not valid.
C18_CacheValidBoundary ==
    (pc = "done" /\ ret.fn = "is_cache_valid") =>
        LET t == args.ticker
            k == args.data_type
            exists == t \in dirs /\ k \in DOMAIN store[t]
            latest == SetMax(IndexSet(store[t][k]))
        IN  /\ ret.value <=> (exists /\ k \in TimeKinds /\ latest >= now - args.max_age_days * Day)
            /\ ~exists => ~ret.value
            /\ (exists /\ k \notin TimeKinds) => ~ret.value
            /\ (exists /\ k \in TimeKinds /\ args.max_age_days = 1) =>
                  /\ latest = now - Day => ret.value
                  /\ latest = now - Day - 1 => ~ret.value

\* is_cache_valid with max_age_days 1 returned true for a price table whose latest date
\* is exactly one day old
C18_Witness ==
    /\ pc = "done"
    /\ ret.fn = "is_cache_valid"
    /\ args.data_type = "ohlcv" /\ args.max_age_days = 1
    /\ "ohlcv" \in DOMAIN store[args.ticker]
    /\ IndexMax(store[args.ticker]["ohlcv"]) = now - Day
    /\ ret.value

\* C19: prioritize_tickers returns its input reordered, nothing added or lost: first the
\* symbols without a directory, then those with a directory whose price table is not
\* fresh, then the fresh ones, each group in the order of the input.
C19_PrioritizeStableGroups ==
    (pc = "done" /\ ret.fn = "prioritize_tickers") =>
        LET inp == args.tickers
            out == ret.value
            fresh(t) == /\ "ohlcv" \in DOMAIN store[t]
                        /\ SetMax(IndexSet(store[t]["ohlcv"])) >= now - args.max_age_days * Day
            group(t) == IF t \notin dirs THEN 1 ELSE IF ~fresh(t) THEN 2 ELSE 3
            n == Len(inp)
        IN  /\ Len(out) = n
            /\ \A i \in 1..n : \A j \in 1..n : i < j => group(out[i]) <= group(out[j])
            /\ \E p \in [1..n -> 1..n] :
                  /\ \A i \in 1..n : \A j \in 1..n : i # j => p[i] # p[j]
                  /\ \A i \in 1..n : out[i] = inp[p[i]]
                  /\ \A i \in 1..n : \A j \in 1..n :
                        (i < j /\ group(out[i]) = group(out[j])) => p[i] < p[j]

\* prioritize_tickers got a fresh symbol, then an outdated one, then one without a
\* directory, and returned them in the opposite order
C19_Witness ==
    /\ pc = "done"
    /\ ret.fn = "prioritize_tickers"
    /\ args.tickers = <<"AAA", "BBB", "CCC">>
    /\ args.max_age_days = 1
    /\ "CCC" \notin dirs
    /\ "BBB" \in dirs /\ "ohlcv" \notin DOMAIN store["BBB"]
    /\ "ohlcv" \in DOMAIN store["AAA"] /\ IndexMax(store["AAA"]["ohlcv"]) = now
    /\ ret.value = <<"CCC", "BBB", "AAA">>

\* C20: for a positive chunk size the chunks of chunk_list, put end to end in order, are
\* the list; none is empty, and all but the last have exactly chunk_size elements, the
\* last at most that.
C20_ChunksPartitionList ==
    (pc = "done" /\ ret.fn = "chunk_list" /\ args.chunk_size > 0) =>
        LET chunks == ret.value
            RECURSIVE Flat(_)
            Flat(cs) == IF cs = <<>> THEN <<>> ELSE Head(cs) \o Flat(Tail(cs))
        IN  /\ Flat(chunks) = args.items
            /\ \A i \in 1..Len(chunks) :
                  /\ chunks[i] # <<>>
                  /\ Len(chunks[i]) <= args.chunk_size
                  /\ i < Len(chunks) => Len(chunks[i]) = args.chunk_size

\* chunk_list cut three items in chunks of two: a full chunk and a last one of one item
C20_Witness ==
    /\ pc = "done"
    /\ ret.fn = "chunk_list"
    /\ args.items = <<"BBB", "AAA", "CCC">>
    /\ args.chunk_size = 2
    /\ ret.value = <<(<<"BBB", "AAA">>), (<<"CCC">>)>>

\* C21: chunk_list called with a chunk size of zero or less raises instead of
\* returning a list of chunks.
C21_NonPositiveSizeRaises ==
    (pc = "done" /\ ret.fn = "chunk_list" /\ args.chunk_size <= 0) => ret.raised

\* C23: validate_tickers raises nothing and returns, in the order of the input and in
\* upper case, exactly the symbols of one to ten characters made only of letters,
\* digits, '.', '-' and '^': AAPL is kept, brk.b becomes BRK.B, toolongsymbolname and
\* AA PL are dropped.
C23_ValidateTickers ==
    (pc = "done" /\ ret.fn = "validate_tickers") =>
        LET allowed == Range(Alphabet.lower) \cup Range(Alphabet.upper)
                       \cup {"0", "1", "2", "3", "4", "5", "6", "7", "8", "9", ".", "-", "^"}
            good(t) == Len(t) >= 1 /\ Len(t) <= 10 /\ \A i \in 1..Len(t) : t[i] \in allowed
            kept == SelectSeq(args.tickers, good)
            inp == Range(args.tickers)
            out == Range(ret.value)
        IN  /\ ~ret.raised
            /\ Len(ret.value) = Len(kept)
            /\ \A i \in 1..Len(kept) :
                  /\ Len(ret.value[i]) = Len(kept[i])
                  /\ \A j \in 1..Len(kept[i]) :
                        /\ ret.value[i][j] \notin Range(Alphabet.lower)
                        /\ ret.value[i][j] # kept[i][j] =>
                              \E l \in 1..Len(Alphabet.lower) :
                                  /\ kept[i][j] = Alphabet.lower[l]
                                  /\ ret.value[i][j] = Alphabet.upper[l]
            /\ <<"A", "A", "P", "L">> \in inp => <<"A", "A", "P", "L">> \in out
            /\ <<"b", "r", "k", ".", "b">> \in inp => <<"B", "R", "K", ".", "B">> \in out
            /\ <<"A", "A", " ", "P", "L">> \notin out
            /\ \A t \in out : Len(t) <= 10

\* validate_tickers got brk.b and then AA PL, and returned BRK.B alone
C23_Witness ==
    /\ pc = "done"
    /\ ret.fn = "validate_tickers"
    /\ args.tickers = <<(<<"b", "r", "k", ".", "b">>), (<<"A", "A", " ", "P", "L">>)>>
    /\ ret.value = <<(<<"B", "R", "K", ".", "B">>)>>

(* ------------------------------------------------------------------ *)
(* cli.py: handle_fetch and handle_update                             *)
(* ------------------------------------------------------------------ *)
\* the ticker lists the command line or the configuration may give: none, AAPL, AAPL
\* twice, brk.b as typed, AAPL with the malformed AA PL
CliLists ==
    {<<>>,
     <<(<<"A", "A", "P", "L">>)>>,
     <<(<<"A", "A", "P", "L">>), (<<"A", "A", "P", "L">>)>>,
     <<(<<"b", "r", "k", ".", "b">>)>>,
     <<(<<"A", "A", "P", "L">>), (<<"A", "A", " ", "P", "L">>)>>}

CliInit ==
    /\ now \in {MaxDay * Day, MaxDay * Day + Day \div 2}
    /\ disk = [config |-> [exists |-> FALSE, valid |-> FALSE, content |-> EmptyDict],
               data_dirs |-> {}]
    /\ \E cached \in CacheChoices :
          store = [t \in UNION {Range(l) : l \in CliLists} |->
                      IF t = <<"A", "A", "P", "L">> THEN cached ELSE EmptyDict]
    /\ dirs = {t \in DOMAIN store : DOMAIN store[t] # {}}
    /\ Quiet

\* handle_fetch after fetch_data_for_tickers returned: 1 if data is empty, else 0
HandleFetchExit ==
    /\ pc = "done"
    /\ ret.fn = "fetch_data_for_tickers"
    /\ pc' = "exit"
    /\ ret' = TopReturn("handle_fetch", IF DOMAIN ret.value = {} THEN 1 ELSE 0)
    /\ slept' = <<>> /\ issued' = <<>> /\ replied' = NoReply /\ aux_replied' = NoAux
    /\ last_call' = NoCall
    /\ UNCHANGED <<now, disk, store, dirs, args, daily_chunks, day, batch_idx, t_idx, attempt,
                   price_data, batch_results, result, upd>>

\* handle_update after update_data_for_tickers returned: 1 if sum(results.values()) is
\* less than len(config["tickers"]), else 0
HandleUpdateExit ==
    /\ pc = "done"
    /\ ret.fn = "update_data_for_tickers"
    /\ pc' = "exit"
    /\ LET success_count == Cardinality({t \in DOMAIN ret.value : ret.value[t]})
       IN  ret' = TopReturn("handle_update",
                            IF success_count < Len(upd.tickers) THEN 1 ELSE 0)
    /\ slept' = <<>> /\ issued' = <<>> /\ replied' = NoReply /\ aux_replied' = NoAux
    /\ last_call' = NoCall
    /\ UNCHANGED <<now, disk, store, dirs, args, daily_chunks, day, batch_idx, t_idx, attempt,
                   price_data, batch_results, result, upd>>

\* handle_fetch passes config["tickers"] and the defaults of the options to
\* fetch_data_for_tickers, handle_update passes config["tickers"] to
\* update_data_for_tickers
CliSpec ==
    CliInit /\
    [][\/ \E tickers \in CliLists, force_refresh \in BOOLEAN :
             FetchDataForTickers(tickers, TRUE, force_refresh, MAX_RETRIES, BATCH_SIZE, DAILY_LIMIT)
       \/ SkipCachedBatch
       \/ BatchDownloadAttempt
       \/ TickerFromBatchCachedAux
       \/ TickerFromBatchFetchAux
       \/ FetchWithRetryCached
       \/ FetchWithRetryAttempt
       \/ HandleFetchExit
       \/ \E tickers \in CliLists : UpdateDataForTickers(tickers)
       \/ UpdateNoData
       \/ UpdateUpToDate
       \/ UpdateFetch
       \/ DateDownload
       \/ DateSingleAttempt
       \/ UpdateNoNewData
       \/ UpdateMergeSave
       \/ HandleUpdateExit]_vars

\* C22: in a fetch or update run started from the command line, every symbol named in
\* a remote request, and every symbol whose stored tables change, is a valid symbol in
\* upper case: a lower-case symbol was put in upper case first and a malformed one was
\* left out.
C22_OnlyValidUpperSymbols ==
    [][/\ \A i \in 1..Len(issued') : \A j \in 1..Len(issued'[i].tickers) :
              /\ ValidateTickerSymbol(issued'[i].tickers[j])
              /\ Upper(issued'[i].tickers[j]) = issued'[i].tickers[j]
       /\ \A t \in DOMAIN store : store'[t] # store[t] =>
              ValidateTickerSymbol(t) /\ Upper(t) = t]_vars

\* C28: handle_fetch returns 1 when the fetch gave data for no ticker and 0 when it
\* gave data for every requested ticker; handle_update returns 0 when the update of
\* every requested ticker succeeded.
C28_ExitCodes ==
    [][(pc = "done" /\ pc' = "exit") =>
          /\ ret.fn = "fetch_data_for_tickers" =>
                /\ DOMAIN ret.value = {} => ret'.value = 1
                /\ (/\ daily_chunks # <<>>
                    /\ \A d \in 1..Len(daily_chunks) :
                          Range(daily_chunks[d]) \subseteq DOMAIN ret.value) =>
                      ret'.value = 0
          /\ ret.fn = "update_data_for_tickers" =>
                ((\A t \in Range(upd.tickers) : ret.value[t]) => ret'.value = 0)]_vars

\* C24: update_ticker_data for a symbol with no stored ohlcv table gives False, issues
\* no remote request and leaves the Store as it was.
C24_NoCacheNoUpdate ==
    [][(pc = "update" /\ (UpdTicker \notin dirs \/ "ohlcv" \notin DOMAIN store[UpdTicker])) =>
          /\ pc' \in {"update", "done"}
          /\ upd'.results[UpdTicker] = FALSE
          /\ issued' = <<>>
          /\ store' = store /\ dirs' = dirs]_vars

\* update_data_for_tickers was called for the first symbol, which has no directory: the
\* call returned False for it, nothing was fetched and the symbol still has no directory
C24_Witness ==
    /\ pc = "done"
    /\ upd.active /\ upd.tickers = <<SymbolOrder[1]>>
    /\ SymbolOrder[1] \notin dirs
    /\ ret.value = [t \in {SymbolOrder[1]} |-> FALSE]
    /\ result = EmptyDict /\ issued = <<>>

\* C25: update_ticker_data takes start = latest stored ohlcv date + 1 day; when start
\* is later than now it gives True, issues no remote request and leaves the Store as
\* it was; otherwise it goes on to fetch from start.
C25_UpToDateNoFetch ==
    [][(pc = "update" /\ UpdTicker \in dirs /\ "ohlcv" \in DOMAIN store[UpdTicker]) =>
          LET start == SetMax(IndexSet(store[UpdTicker]["ohlcv"])) + Day
          IN  /\ issued' = <<>>
              /\ store' = store /\ dirs' = dirs
              /\ IF start > now
                 THEN pc' \in {"update", "done"} /\ upd'.results[UpdTicker] = TRUE
                 ELSE pc' = "d_batch" /\ args'.start_date = start]_vars

\* update_data_for_tickers was called for the first symbol, whose ohlcv table ends less
\* than a day ago: the call returned True for it and nothing was fetched or merged
C25_Witness ==
    /\ pc = "done"
    /\ upd.active /\ upd.tickers = <<SymbolOrder[1]>>
    /\ "ohlcv" \in DOMAIN store[SymbolOrder[1]]
    /\ IndexMax(store[SymbolOrder[1]]["ohlcv"]) + Day > now
    /\ IndexMax(store[SymbolOrder[1]]["ohlcv"]) < now
    /\ ret.value = [t \in {SymbolOrder[1]} |-> TRUE]
    /\ result = EmptyDict /\ upd.merged_data = EmptyDict

\* C26: an update of a symbol whose ohlcv table ends on L, run at now >= L + 1 day,
\* asks the remote for the range from L + 1 day to now; the table stored after the merge
\* has the dates it had before and the dates fetched, none of them twice, and none
\* later than now.
C26_UpdateCycle ==
    [][/\ (upd.active /\ pc = "d_batch") =>
             LET L == SetMax(IndexSet(store[UpdTicker]["ohlcv"]))
             IN  /\ now >= L + Day
                 /\ issued' = <<[api |-> "download", tickers |-> <<UpdTicker>>,
                                 start |-> L + Day, end |-> now]>>
       /\ (pc = "merge" /\ UpdTicker \in DOMAIN result) =>
             /\ IndexSet(store'[UpdTicker]["ohlcv"]) =
                   IndexSet(store[UpdTicker]["ohlcv"]) \cup IndexSet(result[UpdTicker]["ohlcv"])
             /\ NoDuplicateIndex(store'[UpdTicker]["ohlcv"])
             /\ \A d \in IndexSet(store'[UpdTicker]["ohlcv"]) : d <= now]_vars

\* the first symbol had ohlcv through day 1 and was updated a day later or more: the
\* range asked starts a day after day 1 and ends now, and the stored table has day 1 and
\* the fetched day after it
C26_Witness ==
    /\ Merged
    /\ upd.tickers = <<SymbolOrder[1]>>
    /\ IndexSet(upd.existing_data["ohlcv"]) = {Day}
    /\ args.start_date = 2 * Day /\ args.end_date = now
    /\ IndexSet(upd.new_data["ohlcv"]) = {2 * Day}
    /\ Index(store[SymbolOrder[1]]["ohlcv"]) = <<Day, 2 * Day>>

\* C27: update_data_for_tickers raises nothing and goes through the whole list: each
\* symbol adds its own boolean to the results and changes no other entry, a symbol that
\* gives False is followed by the next one, and the map returned has an entry for every
\* requested symbol.
C27_UpdateRunNeverAborts ==
    [][/\ ~ret'.raised
       /\ (upd.active /\ pc \in {"d_batch", "d_single"}) =>
             pc' \in {"d_batch", "d_single", "merge"} /\ upd'.results = upd.results
       /\ (upd.active /\ pc \in {"update", "merge"} /\ pc' \in {"update", "done"}) =>
             /\ DOMAIN upd'.results = (DOMAIN upd.results) \cup {UpdTicker}
             /\ upd'.results[UpdTicker] \in BOOLEAN
             /\ \A t \in (DOMAIN upd.results) \ {UpdTicker} : upd'.results[t] = upd.results[t]
             /\ IF upd.idx + 1 < Len(upd.tickers)
                THEN pc' = "update" /\ upd'.idx = upd.idx + 1
                ELSE /\ pc' = "done"
                     /\ ret'.value = upd'.results
                     /\ DOMAIN ret'.value = Range(upd.tickers)]_vars

\* update_data_for_tickers of two symbols returned False for the first, which has no
\* directory, and True for the second, whose merged table was saved after it
C27_Witness ==
    /\ pc = "done"
    /\ upd.active /\ upd.tickers = SymbolOrder
    /\ SymbolOrder[1] \notin dirs
    /\ ret.value = [t \in Symbols |-> t = SymbolOrder[2]]
    /\ DOMAIN upd.merged_data # {}
    /\ store[SymbolOrder[2]]["ohlcv"] = upd.merged_data["ohlcv"]

(* ------------------------------------------------------------------ *)
(* config.py: load_config, save_config, update_config                 *)
(* ------------------------------------------------------------------ *)
\* a JSON value is its type and its text; the home directory is written ~
DEFAULT_CONFIG ==
    [k \in {"data_dir", "tickers", "period", "interval", "log_level"} |->
        IF k = "data_dir" THEN [type |-> "str", text |-> "~/data/yfinance"]
        ELSE IF k = "tickers" THEN [type |-> "list", text |-> "AAPL,MSFT,GOOGL,AMZN,META"]
        ELSE IF k = "period" THEN [type |-> "str", text |-> "max"]
        ELSE IF k = "interval" THEN [type |-> "str", text |-> "1d"]
        ELSE [type |-> "str", text |-> "INFO"]]

\* the entries a caller or `config --set` may give: a data directory as a path or as
\* the number 123, a period, a key of the user's own
ConfigUpdates ==
    UNION {[K -> {[type |-> "str", text |-> "x"]}] : K \in SUBSET {"period", "test_key"}}
    \cup {[k \in K \cup {"data_dir"} |->
              IF k = "data_dir" THEN v ELSE [type |-> "str", text |-> "x"]] :
          K \in SUBSET {"period", "test_key"},
          v \in {[type |-> "str", text |-> "d"], [type |-> "int", text |-> "123"]}}

\* load_config if a missing file were left missing
LoadConfigNoCreate(d) ==
    LET config == IF d.config.exists /\ d.config.valid
                  THEN DictUpdate(DEFAULT_CONFIG, d.config.content)
                  ELSE DEFAULT_CONFIG
        raised == config["data_dir"].type # "str"
    IN  [config |-> config,
         raised |-> raised,
         disk |-> [config |-> d.config,
                   data_dirs |-> IF raised THEN d.data_dirs
                                 ELSE d.data_dirs \cup {config["data_dir"].text}]]

\* load_config(config_path) on the disk d: the dictionary it builds, whether
\* ensure_data_dir raises (os.makedirs of a path that is no string), and the disk after
LoadConfig(d) ==
    LET config == IF d.config.exists /\ d.config.valid
                  THEN DictUpdate(DEFAULT_CONFIG, d.config.content)
                  ELSE DEFAULT_CONFIG
        saved == IF d.config.exists THEN d.config
                 ELSE [exists |-> TRUE, valid |-> TRUE, content |-> config]
        raised == config["data_dir"].type # "str"
    IN  [config |-> config,
         raised |-> raised,
         disk |-> [config |-> saved,
                   data_dirs |-> IF raised THEN d.data_dirs
                                 ELSE d.data_dirs \cup {config["data_dir"].text}]]

\* update_config if the updated dictionary were returned without being saved
UpdateConfigUnsaved(d, updates) ==
    LET loaded == LoadConfig(d)
    IN  IF loaded.raised THEN loaded
        ELSE [loaded EXCEPT !.config = DictUpdate(loaded.config, updates)]

\* update_config(updates, config_path) on the disk d
UpdateConfig(d, updates) ==
    LET loaded == LoadConfig(d)
        config == DictUpdate(loaded.config, updates)
    IN  IF loaded.raised THEN loaded
        ELSE [config |-> config,
              raised |-> FALSE,
              disk |-> [loaded.disk EXCEPT
                           !.config = [exists |-> TRUE, valid |-> TRUE, content |-> config]]]

\* no configuration file, one that is no JSON, or one saved before
ConfigInit ==
    /\ now = MaxDay * Day
    /\ \E file \in {[exists |-> FALSE, valid |-> FALSE, content |-> EmptyDict],
                    [exists |-> TRUE, valid |-> FALSE, content |-> EmptyDict]}
                   \cup {[exists |-> TRUE, valid |-> TRUE, content |-> c] : c \in ConfigUpdates} :
          disk = [config |-> file, data_dirs |-> {}]
    /\ store = [t \in Symbols |-> EmptyDict]
    /\ dirs = {}
    /\ Quiet

\* save_config(config, config_path)
SaveConfigCall ==
    /\ pc = "idle"
    /\ \E config \in ConfigUpdates \cup {DictUpdate(DEFAULT_CONFIG, u) : u \in ConfigUpdates} :
        /\ args' = [fn |-> "save_config", config |-> config]
        /\ disk' = [disk EXCEPT !.config = [exists |-> TRUE, valid |-> TRUE, content |-> config]]
        /\ ret' = TopReturn("save_config", EmptyDict)
    /\ UNCHANGED <<now, store, dirs, pc, daily_chunks, day, batch_idx, t_idx, attempt, price_data,
                   batch_results, result, upd, slept, issued, replied, aux_replied, last_call>>

\* load_config(config_path)
LoadConfigCall ==
    /\ pc = "idle"
    /\ args' = [fn |-> "load_config"]
    /\ disk' = LoadConfig(disk).disk
    /\ ret' = [fn |-> "load_config", value |-> LoadConfig(disk).config,
               raised |-> LoadConfig(disk).raised]
    /\ UNCHANGED <<now, store, dirs, pc, daily_chunks, day, batch_idx, t_idx, attempt, price_data,
                   batch_results, result, upd, slept, issued, replied, aux_replied, last_call>>

\* update_config(updates, config_path)
UpdateConfigCall ==
    /\ pc = "idle"
    /\ \E updates \in ConfigUpdates :
        /\ args' = [fn |-> "update_config", updates |-> updates]
        /\ disk' = UpdateConfig(disk, updates).disk
        /\ ret' = [fn |-> "update_config", value |-> UpdateConfig(disk, updates).config,
                   raised |-> UpdateConfig(disk, updates).raised]
    /\ UNCHANGED <<now, store, dirs, pc, daily_chunks, day, batch_idx, t_idx, attempt, price_data,
                   batch_results, result, upd, slept, issued, replied, aux_replied, last_call>>

ConfigSpec == ConfigInit /\ [][SaveConfigCall \/ LoadConfigCall \/ UpdateConfigCall]_vars

\* C29: after save_config(c, path) the file holds exactly c; load_config(path) on an
\* existing file raises nothing and returns the defaults overlaid with the entries of
\* the file, which is the saved c when c has every default key.
C29_ConfigRoundTrip ==
    [][/\ args'.fn = "save_config" =>
             disk'.config = [exists |-> TRUE, valid |-> TRUE, content |-> args'.config]
       /\ (args'.fn = "load_config" /\ disk.config.exists /\ disk.config.valid) =>
             /\ ~ret'.raised
             /\ DOMAIN ret'.value = (DOMAIN DEFAULT_CONFIG) \cup (DOMAIN disk.config.content)
             /\ \A k \in DOMAIN ret'.value :
                   ret'.value[k] = IF k \in DOMAIN disk.config.content
                                   THEN disk.config.content[k] ELSE DEFAULT_CONFIG[k]
             /\ (DOMAIN DEFAULT_CONFIG \subseteq DOMAIN disk.config.content) =>
                   ret'.value = disk.config.content]_vars

C31_LoadMissingConfig ==
    [][(args'.fn = "load_config" /\ ~disk.config.exists) =>
          /\ ~ret'.raised
          /\ ret'.value = DEFAULT_CONFIG
          /\ disk'.config = [exists |-> TRUE, valid |-> TRUE, content |-> DEFAULT_CONFIG]]_vars

\* load_config returned the defaults, the file holds them and only the default data
\* directory was made
C31_Witness ==
    /\ args.fn = "load_config"
    /\ ~ret.raised
    /\ ret.value = DEFAULT_CONFIG
    /\ disk.config = [exists |-> TRUE, valid |-> TRUE, content |-> DEFAULT_CONFIG]
    /\ disk.data_dirs = {DEFAULT_CONFIG["data_dir"].text}

\* C32: in both fetch modes a bulk response with rows for a batch of one symbol is
\* given whole to that symbol, though it has no per-symbol level; for a batch of two or
\* more the symbols that get a table are those of the batch found in the per-symbol
\* level of the response, each with its own rows.
C32_SingleSymbolBatch ==
    [][/\ (pc \in BulkLoop /\ replied' = "data") =>
             \E out \in DownloadOutcomes(Batch) :
                 LET resp == Response(Batch, out.data)
                 IN  IF Len(Batch) = 1
                     THEN ~resp.grouped /\ price_data' = [t \in {Batch[1]} |-> resp.table]
                     ELSE resp.grouped /\ price_data' = resp.groups
       /\ (pc = "d_batch" /\ replied' = "data") =>
             \E out \in DownloadOutcomes(Batch) :
                 LET resp == Response(Batch, out.data)
                     got == IF Len(Batch) = 1 THEN [t \in {Batch[1]} |-> resp.table]
                            ELSE resp.groups
                 IN  /\ (Len(Batch) = 1) = ~resp.grouped
                     /\ \A t \in Range(Batch) :
                           IF t \in DOMAIN got
                           THEN t \in DOMAIN result' /\ result'[t]["ohlcv"] = got[t]
                           ELSE (t \in DOMAIN result') = (t \in DOMAIN result)]_vars

\* the bulk request of fetch_data_for_tickers for a batch of the second symbol alone was
\* answered with a table of two rows, which is the symbol's price data
C32_Witness ==
    /\ pc = "ticker"
    /\ args.fn = "fetch_data_for_tickers"
    /\ Len(daily_chunks) >= 1
    /\ Batch = <<SymbolOrder[2]>>
    /\ replied = "data"
    /\ DOMAIN price_data = {SymbolOrder[2]}
    /\ Len(price_data[SymbolOrder[2]]) = 2

(* ------------------------------------------------------------------ *)
(* A run of fetch_data_for_tickers that is cut short, and the next run *)
(* ------------------------------------------------------------------ *)
\* the time that passes between the end of a run and the start of the next
Pauses == {0, Day \div 2}

\* the latest time a run starts at: a day and a half after the last trading day
LastRun == (MaxDay + 1) * Day + Day \div 2

\* the process ends, by itself or killed between two steps: nothing of it is left but
\* the Store
Interrupt ==
    /\ pc # "idle"
    /\ \E pause \in Pauses : now + pause <= LastRun /\ now' = now + pause
    /\ pc' = "idle"
    /\ args' = NoArgs
    /\ daily_chunks' = <<>>
    /\ day' = 0 /\ batch_idx' = 0 /\ t_idx' = 0 /\ attempt' = 0
    /\ price_data' = EmptyDict /\ batch_results' = EmptyDict /\ result' = EmptyDict
    /\ upd' = NoUpdate
    /\ slept' = <<>> /\ issued' = <<>> /\ replied' = NoReply /\ aux_replied' = NoAux
    /\ last_call' = NoCall /\ ret' = NoReturn
    /\ UNCHANGED <<disk, store, dirs>>

\* the first run starts on an empty Store; every run uses the cache
ResumeInit ==
    /\ now \in {MaxDay * Day, MaxDay * Day + Day \div 2}
    /\ disk = [config |-> [exists |-> FALSE, valid |-> FALSE, content |-> EmptyDict],
               data_dirs |-> {}]
    /\ store = [t \in Symbols |-> EmptyDict]
    /\ dirs = {}
    /\ Quiet

ResumeSpec ==
    /\ ResumeInit
    /\ [][\/ \E tickers \in TickerLists, batch_size \in ChunkSizes, daily_limit \in ChunkSizes :
               FetchDataForTickers(tickers, TRUE, FALSE, 3, batch_size, daily_limit)
          \/ SkipCachedBatch
          \/ BatchDownloadAttempt
          \/ TickerFromBatchCachedAux
          \/ TickerFromBatchFetchAuxOf({AuxOk})
          \/ FetchWithRetryCached
          \/ FetchWithRetryAttemptWith(Replies, {AuxOk})
          \/ Interrupt]_vars

\* the daily chunks, one after the other
RECURSIVE Flatten(_)
Flatten(chunks) == IF chunks = <<>> THEN <<>> ELSE Head(chunks) \o Flatten(Tail(chunks))

\* how many symbols of the run's order come before the one being processed
Position == Len(Flatten(SubSeq(daily_chunks, 1, day))) + batch_idx * args.batch_size + t_idx

\* C33: when fetch_data_for_tickers starts with a data directory and force_refresh
\* false, on a Store that earlier runs (finished or cut short) have left, no symbol with a
\* fresh stored ohlcv table comes before a symbol that is uncached or stale in the order
\* of the run, the order holds the symbols of the list and no other, and the run
\* processes the symbols in that order: the position never goes back, and the symbol
\* processed is the one at the position.
C33_ResumeStaleFirst ==
    [][LET Fresh(t) == t \in dirs /\ IsCacheValid(t, "ohlcv", MAX_AGE_DAYS)
       IN  /\ (pc = "idle" /\ pc' = "batch" /\ args'.data_dir /\ ~args'.force_refresh) =>
                 LET order == Flatten(daily_chunks')
                 IN  /\ \A i, j \in 1..Len(order) :
                            (i < j) => ~(Fresh(order[i]) /\ ~Fresh(order[j]))
                     /\ \E tickers \in TickerLists :
                            /\ Len(order) = Len(tickers)
                            /\ Range(order) = Range(tickers)
           /\ (pc \in BulkLoop \cup SingleLoop /\ pc' \in BulkLoop \cup SingleLoop) =>
                 /\ Position' >= Position
                 /\ Flatten(daily_chunks)[Position + 1] = Ticker
                 /\ daily_chunks' = daily_chunks]_vars

\* a run has started on the list of both symbols after an earlier run left the first
\* symbol fresh in the Store and the second without a directory: the second comes first
C33_Witness ==
    /\ pc = "batch"
    /\ args.fn = "fetch_data_for_tickers"
    /\ args.data_dir /\ ~args.force_refresh
    /\ Flatten(daily_chunks) = <<SymbolOrder[2], SymbolOrder[1]>>
    /\ SymbolOrder[1] \in dirs
    /\ IsCacheValid(SymbolOrder[1], "ohlcv", MAX_AGE_DAYS)
    /\ SymbolOrder[2] \notin dirs
    /\ day = 0 /\ batch_idx = 0

(* ------------------------------------------------------------------ *)
(* The batching and the pacing of both fetchers, on longer lists      *)
(* ------------------------------------------------------------------ *)
PaceOrder == <<"AAA", "BBB", "CCC", "DDD">>

\* the lists of a run: the first symbols of PaceOrder, and one symbol twice
PaceLists ==
    {SubSeq(PaceOrder, 1, n) : n \in 0..Len(PaceOrder)} \cup {<<PaceOrder[1], PaceOrder[1]>>}

\* batch_size
PaceBatchSizes == 1..2

\* daily_limit
PaceDailyLimits == 1..Len(PaceOrder)

\* the first symbols of PaceOrder have a fresh table in the Store, the others nothing
PaceInit ==
    /\ now = MaxDay * Day
    /\ disk = [config |-> [exists |-> FALSE, valid |-> FALSE, content |-> EmptyDict],
               data_dirs |-> {}]
    /\ \E n \in 0..Len(PaceOrder) :
          store = [t \in Range(PaceOrder) |->
                      IF \E i \in 1..n : PaceOrder[i] = t THEN FetchedOn(MaxDay) ELSE EmptyDict]
    /\ dirs = {t \in Range(PaceOrder) : DOMAIN store[t] # {}}
    /\ Quiet

PaceNext ==
    \/ \E tickers \in PaceLists, data_dir \in BOOLEAN, batch_size \in PaceBatchSizes,
          daily_limit \in PaceDailyLimits :
          FetchDataForTickers(tickers, data_dir, FALSE, 3, batch_size, daily_limit)
    \/ SkipCachedBatch
    \/ BatchDownloadAttempt
    \/ TickerFromBatchCachedAux
    \/ TickerFromBatchFetchAuxOf({AuxOk})
    \/ FetchWithRetryCached
    \/ FetchWithRetryAttemptWith(Replies, {AuxOk})
    \/ \E tickers \in PaceLists, batch_size \in PaceBatchSizes,
          daily_limit \in PaceDailyLimits :
          FetchDataFromDate(tickers, MaxDay * Day, FALSE, 3, batch_size, daily_limit)
    \/ DateDownload
    \/ DateSingleAttempt

PaceSpec == PaceInit /\ [][PaceNext]_vars

\* chunk_list(daily_tickers, batch_size) of the d-th daily chunk
BatchesOfDay(d) == ChunkList(daily_chunks[d], args.batch_size)

\* how many times a symbol is in a list
Occurrences(tickers, s) == Cardinality({i \in 1..Len(tickers) : tickers[i] = s})

\* the places of the run: the i-th symbol of the b-th batch of the d-th daily chunk
Slots ==
    {x \in (1..Len(args.tickers)) \X (1..Len(args.tickers)) \X (1..Len(args.tickers)) :
        /\ x[1] <= Len(daily_chunks)
        /\ x[2] <= Len(BatchesOfDay(x[1]))
        /\ x[3] <= Len(BatchesOfDay(x[1])[x[2]])}

\* C34 (as stated): every symbol of the list is in exactly one batch of the run.
C34_EachSymbolInOneBatch ==
    args.fn \in {"fetch_data_for_tickers", "fetch_data_from_date"} =>
        \A s \in Range(args.tickers) :
            Cardinality({x \in (1..Len(daily_chunks)) \X (1..Len(args.tickers)) :
                            /\ x[2] <= Len(BatchesOfDay(x[1]))
                            /\ s \in Range(BatchesOfDay(x[1])[x[2]])}) = 1

\* C34 (amended): in both fetchers, with positive daily_limit and batch_size, every
\* place of the list is in exactly one batch (a symbol listed k times has k places in
\* the batches, and no other symbol has any), no batch is empty or longer than
\* batch_size, the batches of a daily chunk put end to end are that chunk, so that none
\* spans two chunks, no daily chunk is longer than daily_limit; the chunks stay as they
\* were made for the whole run, every request of a step is for symbols of the current
\* daily chunk, and the run passes to the next daily chunk only with the inter-day delay.
C34_BatchesPartitionList ==
    [][/\ (pc = "idle" /\ args'.fn \in {"fetch_data_for_tickers", "fetch_data_from_date"}) =>
             /\ \A s \in Range(args'.tickers) :
                   Cardinality({x \in Slots' : BatchesOfDay(x[1])'[x[2]][x[3]] = s})
                       = Occurrences(args'.tickers, s)
             /\ Cardinality(Slots') = Len(args'.tickers)
             /\ \A d \in 1..Len(daily_chunks') :
                   /\ Flatten(BatchesOfDay(d)') = daily_chunks'[d]
                   /\ Len(daily_chunks'[d]) \in 1..args'.daily_limit
                   /\ \A b \in 1..Len(BatchesOfDay(d)') :
                         Len(BatchesOfDay(d)'[b]) \in 1..args'.batch_size
       /\ (pc # "idle" /\ args.fn \in {"fetch_data_for_tickers", "fetch_data_from_date"}) =>
             /\ daily_chunks' = daily_chunks /\ args' = args
             /\ \A i \in 1..Len(issued') :
                   Range(issued'[i].tickers) \subseteq Range(daily_chunks[day + 1])
             /\ day' # day =>
                   /\ day' = day + 1
                   /\ slept'[Len(slept')] = Sleep("day_delay", day_delay, 0)]_vars

\* a date-range run on four symbols with daily_limit 3 and batch_size 2 is in its second
\* daily chunk: the first chunk went in a batch of two and a batch of one
C34_Witness ==
    /\ pc = "d_batch"
    /\ args.fn = "fetch_data_from_date"
    /\ args.tickers = PaceOrder
    /\ args.daily_limit = 3 /\ args.batch_size = 2
    /\ daily_chunks = <<SubSeq(PaceOrder, 1, 3), SubSeq(PaceOrder, 4, 4)>>
    /\ BatchesOfDay(1) = <<SubSeq(PaceOrder, 1, 2), SubSeq(PaceOrder, 3, 3)>>
    /\ day = 1

\* C35: in a run of either fetcher the 60 s inter-day delay is slept exactly once when
\* the run passes from a daily chunk to the next and at no other step, the run ends in
\* the last daily chunk (so the delays are one fewer than the chunks, none after the
\* last), and the step that makes the last bulk request of a batch sleeps the
\* inter-batch delay after it.
C35_PacingOrder ==
    [][(pc # "idle" /\ args.fn \in {"fetch_data_for_tickers", "fetch_data_from_date"}) =>
          /\ Cardinality({i \in 1..Len(slept') : slept'[i].why = "day_delay"})
                = IF day' # day THEN 1 ELSE 0
          /\ \A i \in 1..Len(slept') :
                slept'[i].why = "day_delay" => slept'[i] = Sleep("day_delay", 60, 0)
          /\ day' # day => day' = day + 1 /\ day' < Len(daily_chunks)
          /\ pc' = "done" => day = Len(daily_chunks) - 1
          /\ ((\E i \in 1..Len(issued') : issued'[i].api = "download") /\ pc' # "bulk") =>
                \E i \in 1..Len(slept') : slept'[i] = Sleep("batch_delay", 5, 0)]_vars

\* C36: in fetch_data_from_date, when the bulk request of a batch is rate-limited, the
\* fixed part of the wait before the per-symbol requests is the base timeout times
\* 2 ** (k % 5), k the index the code counts with (the batch's index in its daily
\* chunk), which is the base timeout times one of 1, 2, 4, 8, 16.
C36_DateBatchWaitPowerOfTwo ==
    [][(pc = "d_batch" /\ replied' = "rate_limited") =>
          /\ Len(slept') = 1
          /\ slept'[1].why = "rate_limit"
          /\ slept'[1].secs = RATE_LIMIT_DEFAULT_TIMEOUT * Pow2(batch_idx % 5)
          /\ slept'[1].secs \in {RATE_LIMIT_DEFAULT_TIMEOUT * m : m \in {1, 2, 4, 8, 16}}]_vars

\* C37: while update_ticker_data runs, no step before the merged save changes the Store
\* or the symbols' directories: the date-range fetch it calls has no data directory; and
\* when the fetch has returned nothing for the symbol (after an empty payload, a failed
\* request or failed per-symbol requests) the update gives False with the Store and the
\* directories as they were.
C37_UpdateWritesOnlyMerged ==
    [][upd.active =>
          /\ pc \in {"update", "d_batch", "d_single"} => store' = store /\ dirs' = dirs
          /\ pc \in {"d_batch", "d_single"} =>
                /\ args.tickers = <<UpdTicker>>
                /\ ~args.data_dir
          /\ (pc = "merge" /\ UpdTicker \notin DOMAIN result) =>
                /\ upd'.results[UpdTicker] = FALSE
                /\ store' = store /\ dirs' = dirs]_vars

\* the update of the first symbol alone, which has a stored ohlcv table, has returned
\* False after a fetch that was made and gave nothing
C37_Witness ==
    /\ pc = "done"
    /\ upd.active
    /\ upd.tickers = <<SymbolOrder[1]>>
    /\ upd.results[SymbolOrder[1]] = FALSE
    /\ GetLatestDate(SymbolOrder[1], "ohlcv") # NoDate
    /\ args.fn = "fetch_data_from_date"
    /\ args.tickers = <<SymbolOrder[1]>>
    /\ SymbolOrder[1] \notin DOMAIN result

(* ------------------------------------------------------------------ *)
(* The end of a run: both fetchers under fair scheduling              *)
(* ------------------------------------------------------------------ *)
\* daily_limit
TermDailyLimits == 2..3

\* none, one or two of the first symbols of PaceOrder have a fresh table in the Store
TermInit ==
    /\ now = MaxDay * Day
    /\ disk = [config |-> [exists |-> FALSE, valid |-> FALSE, content |-> EmptyDict],
               data_dirs |-> {}]
    /\ \E n \in 0..2 :
          store = [t \in Range(PaceOrder) |->
                      IF \E i \in 1..n : PaceOrder[i] = t THEN FetchedOn(MaxDay) ELSE EmptyDict]
    /\ dirs = {t \in Range(PaceOrder) : DOMAIN store[t] # {}}
    /\ Quiet

TermNext ==
    \/ \E tickers \in PaceLists, batch_size \in PaceBatchSizes, daily_limit \in TermDailyLimits :
          FetchDataForTickers(tickers, TRUE, FALSE, 3, batch_size, daily_limit)
    \/ SkipCachedBatch
    \/ BatchDownloadAttempt
    \/ TickerFromBatchCachedAux
    \/ TickerFromBatchFetchAuxOf({AuxOk})
    \/ FetchWithRetryCached
    \/ FetchWithRetryAttemptWith(Replies, {AuxOk})
    \/ \E tickers \in PaceLists, batch_size \in PaceBatchSizes, daily_limit \in TermDailyLimits :
          FetchDataFromDate(tickers, MaxDay * Day, FALSE, 3, batch_size, daily_limit)
    \/ DateDownload
    \/ DateSingleAttempt

\* the program is sequential and every remote request ends, with an answer or an error:
\* a step that can be taken is taken
TermSpec == TermInit /\ [][TermNext]_vars /\ WF_vars(TermNext)

\* the price requests a batch of n symbols may take: the attempts of the bulk request
\* (max_retries of them in fetch_batch_price_data, one in fetch_data_from_date) and
\* max_retries attempts for each symbol
RequestBudget(n) ==
    (IF args.fn = "fetch_data_for_tickers" THEN args.max_retries ELSE 1) + n * args.max_retries

\* the batches of the run that come after the current one
LaterBatches ==
    SubSeq(PriceBatches, batch_idx + 2, Len(PriceBatches))
        \o Flatten([i \in 1..(Len(daily_chunks) - day - 1) |-> BatchesOfDay(day + 1 + i)])

\* the budget of the batches that come after the current one
LaterBudget ==
    Len(LaterBatches) * RequestBudget(0) + Len(Flatten(LaterBatches)) * args.max_retries

\* the price requests the run may still make: what is left of the budget of the current
\* batch, and the budget of the later ones
RequestsLeft ==
    IF pc \in {"idle", "done", "update", "merge"} THEN 0
    ELSE LaterBudget +
         CASE pc \in {"batch", "d_batch"} -> RequestBudget(Len(Batch))
           [] pc = "bulk" -> (args.max_retries - attempt) + Len(Batch) * args.max_retries
           [] pc = "ticker" -> (Len(Batch) - t_idx) * args.max_retries
           [] pc \in {"single", "d_single"} ->
                  (Len(Batch) - t_idx - 1) * args.max_retries + (args.max_retries - attempt)

\* the price requests among the remote requests of a step
PriceRequests(requests) ==
    Cardinality({i \in 1..Len(requests) : requests[i].api \in {"download", "history"}})

\* C38: a run of fetch_data_for_tickers or fetch_data_from_date ends, whatever the list
\* and whatever the remote answers: it starts with a budget of price requests, for
\* each batch of n symbols max_retries (period mode) or 1 (date-range mode) bulk
\* requests and n * max_retries individual ones; every step of the run lowers what
\* is left of the budget by at least one, and by at least the price requests it makes;
\* nothing left of a batch's budget is carried to the next batch; the budget is never
\* overdrawn; and the run reaches its return.
C38_TerminatesWithinBudget ==
    /\ [][/\ (pc = "idle" /\ pc' # "done") =>
                RequestsLeft' = Len(Flatten(daily_chunks')) * args'.max_retries
                    + Cardinality({x \in (1..Len(daily_chunks')) \X (1..Len(args'.tickers)) :
                                      x[2] <= Len(BatchesOfDay(x[1])')})
                      * (IF args'.fn = "fetch_data_for_tickers" THEN args'.max_retries ELSE 1)
          /\ pc \notin {"idle", "done"} =>
                /\ RequestsLeft' >= 0
                /\ RequestsLeft' < RequestsLeft
                /\ RequestsLeft' + PriceRequests(issued') <= RequestsLeft
                /\ PriceRequests(issued') <= 1
                /\ <<day', batch_idx'>> # <<day, batch_idx>> => RequestsLeft' = LaterBudget
                /\ pc' = "done" => LaterBudget = 0]_vars
    /\ <>(pc = "done")

\* a period-mode run on four symbols has returned after the last symbol's individual
\* request failed three times, the whole of its budget
C38_Witness ==
    /\ pc = "done"
    /\ args.fn = "fetch_data_for_tickers"
    /\ args.tickers = PaceOrder
    /\ args.max_retries = 3
    /\ last_call = Returned("fetch_with_retry", 3, EmptyDict)
    /\ replied \in Failures

\* C39: in fetch_data_for_tickers with a data directory, a symbol that gets price data,
\* from the bulk response or from its individual request, has afterwards exactly the
\* fetched table as its stored ohlcv table: the stored dates that the fetched table lacks
\* are gone. So it is for a symbol with a fresh stored table that has price data of the
\* bulk response, its batch having been requested for another symbol that was not
\* fresh; no request is made for it alone.
C39_PeriodFetchReplaces ==
    [][(pc \in SingleLoop /\ args.fn = "fetch_data_for_tickers" /\ args.data_dir) =>
          /\ (pc = "ticker" /\ HasPriceData) =>
                /\ store'[Ticker]["ohlcv"] = price_data[Ticker]
                /\ TickerInCache => issued' = <<>>
          /\ replied' = "data" =>
                /\ last_call'.value["ohlcv"] \in Payloads
                /\ store'[Ticker]["ohlcv"] = last_call'.value["ohlcv"]
          /\ (replied' = "data" \/ (pc = "ticker" /\ HasPriceData)) =>
                /\ IndexSet(store'[Ticker]["ohlcv"]) \subseteq ServedDates
                /\ store'[Ticker]["ohlcv"] \in Payloads]_vars

\* a run on both symbols has ended; the second had a fresh stored table from the first
\* trading day on and shared its batch with the first, which had none: its stored table
\* is the one of the bulk response, which begins on the last trading day, and its
\* auxiliary tables are the cached ones
C39_Witness ==
    /\ pc = "done"
    /\ args.fn = "fetch_data_for_tickers"
    /\ args.data_dir /\ ~args.force_refresh
    /\ daily_chunks = <<SymbolOrder>>
    /\ args.batch_size = 2
    /\ issued = <<>> /\ last_call = NoCall
    /\ SymbolOrder[2] \in DOMAIN price_data
    /\ store[SymbolOrder[2]]["ohlcv"] = price_data[SymbolOrder[2]]
    /\ IndexSet(store[SymbolOrder[2]]["ohlcv"]) = {MaxDay * Day}
    /\ "info" \in DOMAIN store[SymbolOrder[2]]

====
